---- MODULE Spec2Model ----
(***************************************************************************)
(* State-machine model of the solplay_402 on-chain program: the viewer     *)
(* session / SPL-token delegation / settlement logic of                    *)
(* programs/solplay_402/src.  One action per instruction; an instruction   *)
(* that returns an error leaves every account as it was: the transaction   *)
(* is rolled back and its events are dropped, so a failed call is a        *)
(* stuttering step.  `last` holds the event of the last successful call.   *)
(***************************************************************************)
EXTENDS Integers, FiniteSets, Sequences, TLC

\* ------------------------------------------------------------------------
\* Program constants (constants.rs)
\* ------------------------------------------------------------------------
MAX_CHUNKS_PER_APPROVAL == 1000
MAX_TOTAL_CHUNKS == 10000
SESSION_EXPIRY_DURATION == 86400
SESSION_INACTIVITY_DURATION == 3600
BASIS_POINTS == 10000
MAX_PLATFORM_FEE_BPS == 1000
DEFAULT_PLATFORM_FEE_BPS == 250
MIN_PRICE_PER_CHUNK == 1000

\* Option::None of Option<u32> / Option<u64>, and the None of a checked_* result
NONE == -1

\* ------------------------------------------------------------------------
\* Bounds of the model
\* ------------------------------------------------------------------------
\* Integer widths, scaled down to fit the model checker's integers:
\* u32 is modelled on 16 bits and u64 on 30 bits (u128 intermediates are exact).
U32_MAX == 65535
U16_MAX == 65535
U64_MAX == 1073741823
\* unix time of the first transaction of a behaviour
GenesisTime == 1
\* tokens each viewer token account holds initially
InitialBalance == 3000
\* total_chunks every video was created with
VideoChunks == 2
\* cap on platform.total_sessions (number of session records ever opened)
MaxSessions == 2

AllViewers == {"v1", "v2"}
AllVideos == {"vidA", "vidB"}

\* prices a creator sets
Prices == {MIN_PRICE_PER_CHUNK, 2 * MIN_PRICE_PER_CHUNK}
PriceInputs == Prices \cup {MIN_PRICE_PER_CHUNK - 1}
\* fee rates the platform may have been initialized with (<= MAX_PLATFORM_FEE_BPS)
FeeRates == {DEFAULT_PLATFORM_FEE_BPS}
ApproveInputs == {0, 1, 2, MAX_CHUNKS_PER_APPROVAL, MAX_CHUNKS_PER_APPROVAL + 1}
ChunkIndexInputs == 0..VideoChunks
ChunkCountInputs == {0, 1, 2, U32_MAX}
ActiveInputs == {"None", "SomeTrue", "SomeFalse"}

\* the instants the clock takes: the first one, and the first one plus
\* exactly / just over the inactivity and expiry windows
Instants ==
  { GenesisTime + d : d \in {0, SESSION_INACTIVITY_DURATION, SESSION_INACTIVITY_DURATION + 1,
                             SESSION_EXPIRY_DURATION, SESSION_EXPIRY_DURATION + 1} }

VARIABLES
  now,                    \* Clock::get()?.unix_timestamp
  platform,               \* the Platform account
  video,                  \* video id -> Video account
  creator_earnings,       \* video id -> CreatorEarnings account
  viewer_session,         \* <<viewer, video>> -> ViewerSession account (or the closed account)
  viewer_token_account,   \* viewer -> SPL token account (amount, delegate, delegated_amount)
  creator_token_account,  \* video -> amount of the creator's token account
  platform_token_account, \* amount of the platform's fee token account
  chunk_paid_log,         \* <<viewer, video>> -> chunk_index of the ChunkPaid events of the record
  chunk_paid_events,      \* <<viewer, video>> -> payment_sequence, chunks_remaining of ChunkPaid events
  closed_chunks,          \* video id -> chunks_consumed of the closed session records, summed
  closed_spent,           \* total_spent of the closed session records, summed
  last                    \* the last committed instruction and the event it emitted

accounts == <<platform, video, creator_earnings, viewer_session,
              viewer_token_account, creator_token_account, platform_token_account>>
vars == <<now, platform, video, creator_earnings, viewer_session,
          viewer_token_account, creator_token_account, platform_token_account,
          chunk_paid_log, chunk_paid_events, closed_chunks, closed_spent, last>>
event_logs == <<chunk_paid_log, chunk_paid_events>>
closed_totals == <<closed_chunks, closed_spent>>

\* ------------------------------------------------------------------------
\* Checked arithmetic (Rust checked_add / checked_sub / u128 mul + u64::try_from)
\* ------------------------------------------------------------------------
checked_add_u32(a, b) == IF b > U32_MAX - a THEN NONE ELSE a + b
\* mutant: the counter is overwritten by the contribution instead of growing by it
checked_add_u64_mut(a, b) == b

checked_add_u64(a, b) == IF b > U64_MAX - a THEN NONE ELSE a + b
\* mutant: nothing is subtracted (the creator's share is the whole payment)
checked_sub_u64_mut(a, b) == a

checked_sub_u64(a, b) == IF b > a THEN NONE ELSE a - b
\* (a as u128).checked_mul(b as u128) followed by u64::try_from
mul_u128_to_u64(a, b) == IF a # 0 /\ b > U64_MAX \div a THEN NONE ELSE a * b

\* ------------------------------------------------------------------------
\* state.rs
\* ------------------------------------------------------------------------
\* a ViewerSession account that does not exist (or was closed): all zero
NoSession ==
  [exists |-> FALSE, max_approved_chunks |-> 0, chunks_consumed |-> 0,
   total_spent |-> 0, approved_price_per_chunk |-> 0,
   last_paid_chunk_index |-> NONE, session_start |-> 0, last_activity |-> 0]

\* mutant: the fee is rounded up instead of down
calculate_platform_fee_mut(p, amount) ==
  ((amount * p.platform_fee_basis_points + BASIS_POINTS - 1) \div BASIS_POINTS)
    % (U64_MAX + 1)

\* u128 arithmetic reduced to 64 bits, carried out so that no intermediate
\* leaves the range of a u64: (x + y) mod m for 0 <= x, y < m
add_mod(x, y, m) == IF x >= m - y THEN x - (m - y) ELSE x + y

\* (x * k) mod m for 0 <= x < m and k >= 0, by doubling
RECURSIVE mul_mod(_, _, _)
mul_mod(x, k, m) ==
  IF k = 0 THEN 0
  ELSE CHOOSE r \in { IF k % 2 = 1 THEN add_mod(add_mod(h, h, m), x, m)
                                   ELSE add_mod(h, h, m) :
                      h \in {mul_mod(x, k \div 2, m)} } : TRUE

\* fee = (amount as u128 * rate as u128) / BASIS_POINTS, neither step can fail;
\* Ok(fee as u64) keeps the low 64 bits.  The quotient is formed as
\* (amount / B) * rate + ((amount % B) * rate) / B, which is the same number
calculate_platform_fee(p, amount) ==
  LET rate == p.platform_fee_basis_points
      whole == amount \div BASIS_POINTS
      part == ((amount % BASIS_POINTS) * rate) \div BASIS_POINTS
  IN add_mod(mul_mod(whole % (U64_MAX + 1), rate, U64_MAX + 1),
             part % (U64_MAX + 1), U64_MAX + 1)

\* mutant: expiry is measured from the last activity instead of the session start
is_expired_mut(s, current_time) ==
  current_time - s.last_activity > SESSION_EXPIRY_DURATION

\* mutant: a session is expired already at exactly the expiry window
is_expired_at_window_mut(s, current_time) ==
  current_time - s.session_start >= SESSION_EXPIRY_DURATION

is_expired(s, current_time) ==
  current_time - s.session_start > SESSION_EXPIRY_DURATION

\* mutant: inactivity is measured against the expiry window
is_inactive_mut(s, current_time) ==
  current_time - s.last_activity > SESSION_EXPIRY_DURATION

is_inactive(s, current_time) ==
  current_time - s.last_activity > SESSION_INACTIVITY_DURATION

\* mutant: off by one, a session with consumed = max still has approval
has_approval_remaining_mut(s) == s.chunks_consumed <= s.max_approved_chunks

has_approval_remaining(s) == s.chunks_consumed < s.max_approved_chunks

\* mutant: a chunk at or after the last paid one is accepted (a repeat passes)
is_next_chunk_sequential_mut(s, chunk_index) ==
  IF s.last_paid_chunk_index = NONE
    THEN chunk_index = 0
    ELSE chunk_index >= s.last_paid_chunk_index

is_next_chunk_sequential(s, chunk_index) ==
  IF s.last_paid_chunk_index = NONE
    THEN chunk_index = 0
    ELSE chunk_index = s.last_paid_chunk_index + 1

\* mutant: the activity timestamp is not refreshed
update_activity_mut(s, current_time, chunk_index) ==
  [s EXCEPT !.chunks_consumed = @ + 1,
            !.last_paid_chunk_index = chunk_index]

\* mutant: the marker advances but the chunk is not counted as consumed
update_activity_uncounted_mut(s, current_time, chunk_index) ==
  [s EXCEPT !.last_activity = current_time,
            !.last_paid_chunk_index = chunk_index]

update_activity(s, current_time, chunk_index) ==
  [s EXCEPT !.last_activity = current_time,
            !.chunks_consumed = @ + 1,
            !.last_paid_chunk_index = chunk_index]

\* ------------------------------------------------------------------------
\* SPL token program, as the instructions call it
\* ------------------------------------------------------------------------
\* approve_checked: the delegation REPLACES whatever was delegated before
token_approve(acct, amount) ==
  [acct EXCEPT !.delegate = TRUE, !.delegated_amount = amount]

\* mutant: the delegate is cleared but the delegated amount is left standing
token_revoke_mut(acct) == [acct EXCEPT !.delegate = FALSE]

\* mutant: the revoke leaves the delegation in place
token_revoke_kept_mut(acct) == acct

token_revoke(acct) ==
  [acct EXCEPT !.delegate = FALSE, !.delegated_amount = 0]

\* transfer signed by the platform PDA as delegate of the source account
token_transfer_ok(acct, amount) ==
  /\ acct.amount >= amount
  /\ acct.delegate
  /\ acct.delegated_amount >= amount

token_debit(acct, amount) ==
  [amount |-> acct.amount - amount,
   delegated_amount |-> acct.delegated_amount - amount,
   delegate |-> acct.delegated_amount - amount # 0]

\* ------------------------------------------------------------------------
\* Outcome of an instruction on the accounts of (viewer v, video vid)
\* ------------------------------------------------------------------------
Outcome(err, s, vd, ce, p, vt, ct, pt, amount, fee, creator_amount) ==
  [err |-> err, session |-> s, video |-> vd, earnings |-> ce, platform |-> p,
   vtoken |-> vt, ctoken |-> ct, ptoken |-> pt,
   amount |-> amount, fee |-> fee, creator_amount |-> creator_amount]

\* mutant: a re-approval refused for insufficient balance keeps the activity
\* refresh it had already written to the session
Abort_mut(v, vid, err) ==
  Outcome(err,
          IF err = "InsufficientBalanceForApproval"
            THEN [viewer_session[<<v, vid>>] EXCEPT !.last_activity = now]
            ELSE viewer_session[<<v, vid>>],
          video[vid], creator_earnings[vid], platform,
          viewer_token_account[v], creator_token_account[vid], platform_token_account,
          0, 0, 0)

\* an instruction that returns Err: the runtime rolls every account back
Abort(v, vid, err) ==
  Outcome(err, viewer_session[<<v, vid>>], video[vid], creator_earnings[vid], platform,
          viewer_token_account[v], creator_token_account[vid], platform_token_account,
          0, 0, 0)

\* ------------------------------------------------------------------------
\* instructions/approve_delegate.rs
\* ------------------------------------------------------------------------
\* mutant: the upper limit is exclusive
valid_max_chunks_mut(max_chunks) ==
  max_chunks > 0 /\ max_chunks < MAX_CHUNKS_PER_APPROVAL

\* require!(max_chunks > 0 && max_chunks <= MAX_CHUNKS_PER_APPROVAL)
valid_max_chunks(max_chunks) ==
  max_chunks > 0 /\ max_chunks <= MAX_CHUNKS_PER_APPROVAL

\* mutant: the first approval does not stamp last_activity
new_viewer_session_mut(vd, max_chunks, current_time) ==
  [exists |-> TRUE,
   max_approved_chunks |-> max_chunks,
   chunks_consumed |-> 0,
   total_spent |-> 0,
   approved_price_per_chunk |-> vd.price_per_chunk,
   last_paid_chunk_index |-> NONE,
   session_start |-> current_time,
   last_activity |-> 0]

\* the new-session branch: the fields a first approval writes
new_viewer_session(vd, max_chunks, current_time) ==
  [exists |-> TRUE,
   max_approved_chunks |-> max_chunks,
   chunks_consumed |-> 0,
   total_spent |-> 0,
   approved_price_per_chunk |-> vd.price_per_chunk,
   last_paid_chunk_index |-> NONE,
   session_start |-> current_time,
   last_activity |-> current_time]

\* mutant: the re-approval delegates only the newly requested chunks
reapproval_amount_mut(vd, s1, max_chunks) ==
  mul_u128_to_u64(vd.price_per_chunk, max_chunks)

\* the re-approval branch: TOTAL delegation needed, all remaining chunks at the
\* video's current price (s1 is the session with max_approved_chunks already raised)
reapproval_amount(vd, s1, max_chunks) ==
  mul_u128_to_u64(vd.price_per_chunk, s1.max_approved_chunks - s1.chunks_consumed)

\* mutant: a re-approval restarts the session clock
reapproved_session_mut(s0, raised, current_time) ==
  [s0 EXCEPT !.max_approved_chunks = raised,
             !.last_activity = current_time,
             !.session_start = current_time]

\* the re-approval branch: the fields a re-approval writes
reapproved_session(s0, raised, current_time) ==
  [s0 EXCEPT !.max_approved_chunks = raised, !.last_activity = current_time]

\* mutant: a session with nothing consumed yet is taken for a new one
is_new_session_mut(s0) == s0.chunks_consumed = 0

\* let is_new_session = session.session_start == 0
is_new_session(s0) == s0.session_start = 0

\* "Update platform stats" of the new-session branch
count_session_mut(p, total_sessions) == p

count_session(p, total_sessions) == [p EXCEPT !.total_sessions = total_sessions]

approve_streaming_delegate(v, vid, max_chunks) ==
  LET s0 == viewer_session[<<v, vid>>]    \* init_if_needed: all zero when absent
      vd == video[vid]
      vt == viewer_token_account[v]
      is_new == is_new_session(s0)
      total_sessions == checked_add_u64(platform.total_sessions, 1)
      raised == checked_add_u32(s0.max_approved_chunks, max_chunks)
      s1 == IF is_new
              THEN new_viewer_session(vd, max_chunks, now)
              ELSE reapproved_session(s0, raised, now)
      approval_amount ==
        IF is_new
          THEN mul_u128_to_u64(vd.price_per_chunk, max_chunks)
          ELSE reapproval_amount(vd, s1, max_chunks)
      p1 == IF is_new
              THEN count_session(platform, total_sessions)
              ELSE platform
  IN
  IF ~vd.is_active THEN Abort(v, vid, "VideoNotActive")
  ELSE IF ~valid_max_chunks(max_chunks)
    THEN Abort(v, vid, "MaxChunksPerApprovalExceeded")
  ELSE IF is_new /\ total_sessions = NONE THEN Abort(v, vid, "ArithmeticOverflow")
  ELSE IF ~is_new /\ is_expired(s0, now) THEN Abort(v, vid, "SessionExpired")
  ELSE IF ~is_new /\ is_inactive(s0, now) THEN Abort(v, vid, "SessionInactive")
  ELSE IF ~is_new /\ raised = NONE THEN Abort(v, vid, "ArithmeticOverflow")
  ELSE IF approval_amount = NONE THEN Abort(v, vid, "ArithmeticOverflow")
  ELSE IF ~(vt.amount >= approval_amount)
    THEN Abort(v, vid, "InsufficientBalanceForApproval")
  ELSE Outcome("Ok", s1, vd, creator_earnings[vid], p1,
               token_approve(vt, approval_amount),
               creator_token_account[vid], platform_token_account,
               approval_amount, 0, 0)

\* ------------------------------------------------------------------------
\* instructions/pay_for_chunk.rs
\* ------------------------------------------------------------------------
\* mutant: only a raised price is refused
price_matches_approval_mut(vd, s) ==
  vd.price_per_chunk <= s.approved_price_per_chunk

\* Validation 6: the video's current price must equal the session's locked price
price_matches_approval(vd, s) ==
  vd.price_per_chunk = s.approved_price_per_chunk

\* mutant: the event is built from the record as it was before update_activity
ChunkPaid_mut(s) ==
  [payment_sequence |-> s.chunks_consumed - 1,
   chunks_remaining |-> s.max_approved_chunks - (s.chunks_consumed - 1)]

\* emit!(ChunkPaid { .. }): the two fields computed from the updated record
ChunkPaid(s) ==
  [payment_sequence |-> s.chunks_consumed,
   chunks_remaining |-> s.max_approved_chunks - s.chunks_consumed]

\* "Track unique sessions": the settlement is the record's first when the
\* consumed count after the update equals the count just settled
first_settlement_mut(chunks_consumed, chunk_count) == chunks_consumed >= chunk_count

first_settlement(chunks_consumed, chunk_count) == chunks_consumed = chunk_count

\* mutant: the balance is looked at before sequence and price
pay_for_chunk_validations_mut(s, vd, vt, chunk_index) ==
  IF is_expired(s, now) THEN "SessionExpired"
  ELSE IF is_inactive(s, now) THEN "SessionInactive"
  ELSE IF ~(chunk_index < vd.total_chunks) THEN "InvalidChunkIndex"
  ELSE IF ~has_approval_remaining(s) THEN "InsufficientApproval"
  ELSE IF ~(vt.amount >= vd.price_per_chunk) THEN "InsufficientBalance"
  ELSE IF ~is_next_chunk_sequential(s, chunk_index) THEN "OutOfSequenceChunk"
  ELSE IF ~price_matches_approval(vd, s) THEN "PriceChangedSinceApproval"
  ELSE "Ok"

\* Validation 1 to Validation 7, in the order of the require! statements: the
\* error of the first one that fails
pay_for_chunk_validations(s, vd, vt, chunk_index) ==
  IF is_expired(s, now) THEN "SessionExpired"
  ELSE IF is_inactive(s, now) THEN "SessionInactive"
  ELSE IF ~(chunk_index < vd.total_chunks) THEN "InvalidChunkIndex"
  ELSE IF ~has_approval_remaining(s) THEN "InsufficientApproval"
  ELSE IF ~is_next_chunk_sequential(s, chunk_index) THEN "OutOfSequenceChunk"
  ELSE IF ~price_matches_approval(vd, s) THEN "PriceChangedSinceApproval"
  ELSE IF ~(vt.amount >= vd.price_per_chunk) THEN "InsufficientBalance"
  ELSE "Ok"

pay_for_chunk(v, vid, chunk_index) ==
  LET s == viewer_session[<<v, vid>>]
      vd == video[vid]
      ce == creator_earnings[vid]
      vt == viewer_token_account[v]
      validation == pay_for_chunk_validations(s, vd, vt, chunk_index)
      chunk_price == vd.price_per_chunk
      platform_fee == calculate_platform_fee(platform, chunk_price)
      creator_amount == checked_sub_u64(chunk_price, platform_fee)
      vt1 == token_debit(vt, creator_amount)
      vt2 == IF platform_fee > 0 THEN token_debit(vt1, platform_fee) ELSE vt1
      s1 == update_activity(s, now, chunk_index)
      total_spent == checked_add_u64(s.total_spent, chunk_price)
      total_chunks_served == checked_add_u64(vd.total_chunks_served, 1)
      total_earned == checked_add_u64(ce.total_earned, creator_amount)
      total_chunks_sold == checked_add_u64(ce.total_chunks_sold, 1)
      first == first_settlement(s1.chunks_consumed, 1)
      video_sessions == checked_add_u64(vd.total_sessions, 1)
      earnings_sessions == checked_add_u64(ce.total_sessions, 1)
      total_revenue == checked_add_u64(platform.total_revenue, platform_fee)
  IN
  IF ~s.exists THEN Abort(v, vid, "AccountNotInitialized")
  ELSE IF ~vd.is_active THEN Abort(v, vid, "VideoNotActive")
  ELSE IF validation # "Ok" THEN Abort(v, vid, validation)
  ELSE IF creator_amount = NONE THEN Abort(v, vid, "ArithmeticOverflow")
  ELSE IF ~token_transfer_ok(vt, creator_amount) THEN Abort(v, vid, "TokenError")
  ELSE IF platform_fee > 0 /\ ~token_transfer_ok(vt1, platform_fee)
    THEN Abort(v, vid, "TokenError")
  ELSE IF \/ total_spent = NONE \/ total_chunks_served = NONE \/ total_earned = NONE
          \/ total_chunks_sold = NONE \/ total_revenue = NONE
          \/ (first /\ (video_sessions = NONE \/ earnings_sessions = NONE))
    THEN Abort(v, vid, "ArithmeticOverflow")
  ELSE Outcome("Ok",
               [s1 EXCEPT !.total_spent = total_spent],
               [vd EXCEPT !.total_chunks_served = total_chunks_served,
                          !.total_sessions = IF first THEN video_sessions ELSE @],
               [ce EXCEPT !.total_earned = total_earned,
                          !.total_chunks_sold = total_chunks_sold,
                          !.total_sessions = IF first THEN earnings_sessions ELSE @],
               [platform EXCEPT !.total_revenue = total_revenue],
               vt2,
               creator_token_account[vid] + creator_amount,
               platform_token_account + platform_fee,
               chunk_price, platform_fee, creator_amount)

\* ------------------------------------------------------------------------
\* instructions/settle_session.rs
\* ------------------------------------------------------------------------
\* mutant: a report dated exactly at session_start is refused
settlement_not_too_old_mut(s, settlement_timestamp) ==
  settlement_timestamp > s.session_start

\* VALIDATION 2: settlement_timestamp within [session_start, clock.unix_timestamp]
settlement_not_too_old(s, settlement_timestamp) ==
  settlement_timestamp >= s.session_start

settlement_not_in_future(settlement_timestamp, current_time) ==
  settlement_timestamp <= current_time

\* mutant: the approval limit is not checked
within_approval_mut(s, new_total_chunks) == TRUE

\* VALIDATION 3: new_total_chunks <= max_approved_chunks
within_approval(s, new_total_chunks) ==
  new_total_chunks <= s.max_approved_chunks

\* mutant: the batch is priced at the video's current price
settlement_price_mut(s, vd) == vd.price_per_chunk

\* VALIDATION 4: the batch is priced at the price locked at approval time
settlement_price(s, vd) == s.approved_price_per_chunk

\* mutant: the batch also advances the last-paid marker to its last chunk
settled_session_mut(s, new_total_chunks, total_spent, current_time) ==
  [s EXCEPT !.chunks_consumed = new_total_chunks,
            !.total_spent = total_spent,
            !.last_activity = current_time,
            !.last_paid_chunk_index = new_total_chunks - 1]

\* UPDATE STATE: the session fields a batch settlement writes
settled_session(s, new_total_chunks, total_spent, current_time) ==
  [s EXCEPT !.chunks_consumed = new_total_chunks,
            !.total_spent = total_spent,
            !.last_activity = current_time]

settle_session(v, vid, chunk_count, settlement_timestamp) ==
  LET s == viewer_session[<<v, vid>>]
      vd == video[vid]
      ce == creator_earnings[vid]
      vt == viewer_token_account[v]
      new_total_chunks == checked_add_u32(s.chunks_consumed, chunk_count)
      price_per_chunk == settlement_price(s, vd)
      total_payment_u64 == mul_u128_to_u64(price_per_chunk, chunk_count)
      platform_fee == calculate_platform_fee(platform, total_payment_u64)
      creator_amount == checked_sub_u64(total_payment_u64, platform_fee)
      vt1 == token_debit(vt, creator_amount)
      vt2 == IF platform_fee > 0 THEN token_debit(vt1, platform_fee) ELSE vt1
      total_spent == checked_add_u64(s.total_spent, total_payment_u64)
      total_chunks_served == checked_add_u64(vd.total_chunks_served, chunk_count)
      total_earned == checked_add_u64(ce.total_earned, creator_amount)
      total_chunks_sold == checked_add_u64(ce.total_chunks_sold, chunk_count)
      first == first_settlement(new_total_chunks, chunk_count)
      video_sessions == checked_add_u64(vd.total_sessions, 1)
      earnings_sessions == checked_add_u64(ce.total_sessions, 1)
      total_revenue == checked_add_u64(platform.total_revenue, platform_fee)
  IN
  IF ~s.exists THEN Abort(v, vid, "AccountNotInitialized")
  ELSE IF ~vd.is_active THEN Abort(v, vid, "VideoNotActive")
  ELSE IF ~(chunk_count > 0) THEN Abort(v, vid, "InvalidChunkCount")
  ELSE IF is_expired(s, now) THEN Abort(v, vid, "SessionExpired")
  ELSE IF ~settlement_not_too_old(s, settlement_timestamp)
    THEN Abort(v, vid, "SettlementTooOld")
  ELSE IF ~settlement_not_in_future(settlement_timestamp, now)
    THEN Abort(v, vid, "SettlementInFuture")
  ELSE IF new_total_chunks = NONE THEN Abort(v, vid, "ArithmeticOverflow")
  ELSE IF ~within_approval(s, new_total_chunks)
    THEN Abort(v, vid, "SettlementExceedsApproval")
  ELSE IF total_payment_u64 = NONE THEN Abort(v, vid, "ArithmeticOverflow")
  ELSE IF ~(vt.amount >= total_payment_u64) THEN Abort(v, vid, "InsufficientBalance")
  ELSE IF creator_amount = NONE THEN Abort(v, vid, "ArithmeticOverflow")
  ELSE IF ~token_transfer_ok(vt, creator_amount) THEN Abort(v, vid, "TokenError")
  ELSE IF platform_fee > 0 /\ ~token_transfer_ok(vt1, platform_fee)
    THEN Abort(v, vid, "TokenError")
  ELSE IF \/ total_spent = NONE \/ total_chunks_served = NONE \/ total_earned = NONE
          \/ total_chunks_sold = NONE \/ total_revenue = NONE
          \/ (first /\ (video_sessions = NONE \/ earnings_sessions = NONE))
    THEN Abort(v, vid, "ArithmeticOverflow")
  ELSE Outcome("Ok",
               settled_session(s, new_total_chunks, total_spent, now),
               [vd EXCEPT !.total_chunks_served = total_chunks_served,
                          !.total_sessions = IF first THEN video_sessions ELSE @],
               [ce EXCEPT !.total_earned = total_earned,
                          !.total_chunks_sold = total_chunks_sold,
                          !.total_sessions = IF first THEN earnings_sessions ELSE @],
               [platform EXCEPT !.total_revenue = total_revenue],
               vt2,
               creator_token_account[vid] + creator_amount,
               platform_token_account + platform_fee,
               total_payment_u64, platform_fee, creator_amount)

\* ------------------------------------------------------------------------
\* instructions/revoke_delegate.rs
\* ------------------------------------------------------------------------
revoke_streaming_delegate(v, vid) ==
  LET s == viewer_session[<<v, vid>>]
  IN
  IF ~s.exists THEN Abort(v, vid, "AccountNotInitialized")
  ELSE Outcome("Ok", s, video[vid], creator_earnings[vid], platform,
               token_revoke(viewer_token_account[v]),
               creator_token_account[vid], platform_token_account,
               s.total_spent, 0, 0)

\* ------------------------------------------------------------------------
\* instructions/close_session.rs
\* ------------------------------------------------------------------------
\* mutant: the record is unlinked but its data is not cleared
close_viewer_session_mut(v, vid) ==
  LET s == viewer_session[<<v, vid>>]
  IN
  IF ~s.exists THEN Abort(v, vid, "AccountNotInitialized")
  ELSE Outcome("Ok", [s EXCEPT !.exists = FALSE],
               video[vid], creator_earnings[vid], platform,
               viewer_token_account[v],
               creator_token_account[vid], platform_token_account,
               s.total_spent, 0, 0)

close_viewer_session(v, vid) ==
  LET s == viewer_session[<<v, vid>>]
  IN
  IF ~s.exists THEN Abort(v, vid, "AccountNotInitialized")
  ELSE Outcome("Ok", NoSession, video[vid], creator_earnings[vid], platform,
               viewer_token_account[v],
               creator_token_account[vid], platform_token_account,
               s.total_spent, 0, 0)

\* ------------------------------------------------------------------------
\* Account validation (#[derive(Accounts)]): `signer` signs as viewer and passes
\* the session record of (v, vid) and the token account of viewer tv.  The
\* session must sit at the address derived from the signer's key and name the
\* signer as its viewer; the token account must be owned by the signer.
\* ------------------------------------------------------------------------
approve_streaming_delegate_as(signer, v, tv, vid, max_chunks) ==
  IF signer # v THEN Abort(v, vid, "ConstraintSeeds")
  ELSE IF ~video[vid].is_active THEN Abort(v, vid, "VideoNotActive")
  ELSE IF tv # signer THEN Abort(v, vid, "ConstraintRaw")
  ELSE approve_streaming_delegate(v, vid, max_chunks)

pay_for_chunk_as(signer, v, tv, vid, chunk_index) ==
  IF ~viewer_session[<<v, vid>>].exists THEN Abort(v, vid, "AccountNotInitialized")
  ELSE IF signer # v THEN Abort(v, vid, "ConstraintSeeds")
  ELSE IF ~video[vid].is_active THEN Abort(v, vid, "VideoNotActive")
  ELSE IF tv # signer THEN Abort(v, vid, "ConstraintRaw")
  ELSE pay_for_chunk(v, vid, chunk_index)

\* mutant: the batch is accepted from any signer (no Unauthorized constraint on
\* the session, no owner constraint on the token account)
settle_session_as_mut(signer, v, tv, vid, chunk_count, settlement_timestamp) ==
  settle_session(v, vid, chunk_count, settlement_timestamp)

settle_session_as(signer, v, tv, vid, chunk_count, settlement_timestamp) ==
  IF ~viewer_session[<<v, vid>>].exists THEN Abort(v, vid, "AccountNotInitialized")
  ELSE IF signer # v THEN Abort(v, vid, "Unauthorized")
  ELSE IF ~video[vid].is_active THEN Abort(v, vid, "VideoNotActive")
  ELSE IF tv # signer THEN Abort(v, vid, "ConstraintRaw")
  ELSE settle_session(v, vid, chunk_count, settlement_timestamp)

revoke_streaming_delegate_as(signer, v, tv, vid) ==
  IF ~viewer_session[<<v, vid>>].exists THEN Abort(v, vid, "AccountNotInitialized")
  ELSE IF signer # v THEN Abort(v, vid, "ConstraintSeeds")
  ELSE IF tv # signer THEN Abort(v, vid, "ConstraintRaw")
  ELSE revoke_streaming_delegate(v, vid)

\* mutant: the session account is not tied to the signer
close_viewer_session_as_mut(signer, v, vid) ==
  IF ~viewer_session[<<v, vid>>].exists THEN Abort(v, vid, "AccountNotInitialized")
  ELSE close_viewer_session(v, vid)

\* CloseViewerSession accounts: `signer` signs as viewer and passes the session
\* record of (v, vid); the record must exist, sit at the address derived from
\* the signer's key and the video, and name the signer as its viewer
close_viewer_session_as(signer, v, vid) ==
  IF ~viewer_session[<<v, vid>>].exists THEN Abort(v, vid, "AccountNotInitialized")
  ELSE IF signer # v THEN Abort(v, vid, "ConstraintSeeds")
  ELSE close_viewer_session(v, vid)

\* ------------------------------------------------------------------------
\* instructions/update_video.rs (signed by the video's creator)
\* ------------------------------------------------------------------------
update_video(vid, price_per_chunk, is_active) ==
  LET vd == video[vid]
      vd1 == IF price_per_chunk # NONE
               THEN [vd EXCEPT !.price_per_chunk = price_per_chunk]
               ELSE vd
      vd2 == IF is_active # "None"
               THEN [vd1 EXCEPT !.is_active = (is_active = "SomeTrue")]
               ELSE vd1
  IN
  IF ~(price_per_chunk # NONE \/ is_active # "None")
    THEN [err |-> "NoUpdateProvided", video |-> vd]
  ELSE IF price_per_chunk # NONE /\ ~(price_per_chunk >= platform.min_price_per_chunk)
    THEN [err |-> "PriceTooLow", video |-> vd]
  ELSE [err |-> "Ok", video |-> vd2]

\* ------------------------------------------------------------------------
\* The state machine
\* ------------------------------------------------------------------------
\* what a committed instruction leaves behind: its arguments, the amounts of the
\* event it emitted, and whether the session was inactive when it ran
Last(op, v, vid, arg, ts, amount, fee, creator_amount, was_inactive) ==
  [op |-> op, viewer |-> v, video |-> vid, arg |-> arg, ts |-> ts,
   amount |-> amount, fee |-> fee, creator_amount |-> creator_amount,
   was_inactive |-> was_inactive]

\* state after initialize_platform(rate, MIN_PRICE_PER_CHUNK) and create_video
\* for every video
InitOver(rates, balance) ==
  /\ now = GenesisTime
  /\ \E rate \in rates :
       platform = [platform_fee_basis_points |-> rate,
                   min_price_per_chunk |-> MIN_PRICE_PER_CHUNK,
                   total_videos |-> Cardinality(AllVideos),
                   total_sessions |-> 0,
                   total_revenue |-> 0]
  /\ video = [vid \in AllVideos |->
                [total_chunks |-> VideoChunks,
                 price_per_chunk |-> MIN_PRICE_PER_CHUNK,
                 is_active |-> TRUE,
                 total_sessions |-> 0,
                 total_chunks_served |-> 0]]
  /\ creator_earnings = [vid \in AllVideos |->
                [total_earned |-> 0, total_sessions |-> 0, total_chunks_sold |-> 0]]
  /\ viewer_session = [k \in AllViewers \X AllVideos |-> NoSession]
  /\ viewer_token_account = [v \in AllViewers |->
                [amount |-> balance, delegated_amount |-> 0, delegate |-> FALSE]]
  /\ creator_token_account = [vid \in AllVideos |-> 0]
  /\ platform_token_account = 0
  /\ chunk_paid_log = [k \in AllViewers \X AllVideos |-> <<>>]
  /\ chunk_paid_events = [k \in AllViewers \X AllVideos |-> <<>>]
  /\ closed_chunks = [vid \in AllVideos |-> 0]
  /\ closed_spent = 0
  /\ last = Last("init", "-", "-", NONE, NONE, 0, 0, 0, FALSE)

InitWith(rates) == InitOver(rates, InitialBalance)

Init == InitWith(FeeRates)

\* the transaction commits the outcome of a handler that returned Ok(())
Commit(op, v, vid, arg, ts, o) ==
  /\ o.err = "Ok"
  /\ viewer_session' = [viewer_session EXCEPT ![<<v, vid>>] = o.session]
  /\ video' = [video EXCEPT ![vid] = o.video]
  /\ creator_earnings' = [creator_earnings EXCEPT ![vid] = o.earnings]
  /\ platform' = o.platform
  /\ viewer_token_account' = [viewer_token_account EXCEPT ![v] = o.vtoken]
  /\ creator_token_account' = [creator_token_account EXCEPT ![vid] = o.ctoken]
  /\ platform_token_account' = o.ptoken
  /\ last' = Last(op, v, vid, arg, ts, o.amount, o.fee, o.creator_amount,
                  is_inactive(viewer_session[<<v, vid>>], now))
  /\ UNCHANGED now

ApproveDelegate(v, vid, max_chunks) ==
  /\ viewer_session[<<v, vid>>].session_start = 0 => platform.total_sessions < MaxSessions
  /\ Commit("approve", v, vid, max_chunks, NONE,
            approve_streaming_delegate(v, vid, max_chunks))
  /\ UNCHANGED <<event_logs, closed_totals>>

\* the ChunkPaid event joins the log of the session record (its chunk_index
\* only: the event's counters are followed by PayForChunkAs)
PayForChunk(v, vid, chunk_index) ==
  /\ Commit("pay", v, vid, chunk_index, NONE, pay_for_chunk(v, vid, chunk_index))
  /\ chunk_paid_log' = [chunk_paid_log EXCEPT ![<<v, vid>>] = Append(@, chunk_index)]
  /\ UNCHANGED <<chunk_paid_events, closed_totals>>

SettleSession(v, vid, chunk_count, settlement_timestamp) ==
  /\ Commit("settle", v, vid, chunk_count, settlement_timestamp,
            settle_session(v, vid, chunk_count, settlement_timestamp))
  /\ UNCHANGED <<event_logs, closed_totals>>

RevokeDelegate(v, vid) ==
  /\ Commit("revoke", v, vid, NONE, NONE, revoke_streaming_delegate(v, vid))
  /\ UNCHANGED <<event_logs, closed_totals>>

\* the session record is destroyed, and its log with it
CloseViewerSession(signer, v, vid) ==
  /\ Commit("close", v, vid, NONE, NONE, close_viewer_session_as(signer, v, vid))
  /\ chunk_paid_log' = [chunk_paid_log EXCEPT ![<<v, vid>>] = <<>>]
  /\ chunk_paid_events' = [chunk_paid_events EXCEPT ![<<v, vid>>] = <<>>]
  /\ closed_chunks' = [closed_chunks EXCEPT ![vid] = @ + viewer_session[<<v, vid>>].chunks_consumed]
  /\ closed_spent' = closed_spent + viewer_session[<<v, vid>>].total_spent

UpdateVideo(vid, price_per_chunk, is_active) ==
  LET o == update_video(vid, price_per_chunk, is_active)
  IN /\ o.err = "Ok"
     /\ video' = [video EXCEPT ![vid] = o.video]
     /\ last' = Last("update", "-", vid, price_per_chunk, NONE, 0, 0, 0, FALSE)
     /\ UNCHANGED <<now, platform, creator_earnings, viewer_session, event_logs, closed_totals,
                    viewer_token_account, creator_token_account, platform_token_account>>

\* the cluster clock advances
Tick(t) ==
  /\ t > now
  /\ now' = t
  /\ last' = Last("tick", "-", "-", NONE, NONE, 0, 0, 0, FALSE)
  /\ UNCHANGED <<accounts, event_logs, closed_totals>>

\* settlement timestamps a caller reports: around the session start and around now
TimestampInputs(v, vid) ==
  {viewer_session[<<v, vid>>].session_start - 1, viewer_session[<<v, vid>>].session_start,
   now, now + 1}

NextOver(VS, DS) ==
  \/ \E v \in VS, vid \in DS, n \in ApproveInputs : ApproveDelegate(v, vid, n)
  \/ \E v \in VS, vid \in DS, i \in ChunkIndexInputs : PayForChunk(v, vid, i)
  \/ \E v \in VS, vid \in DS, n \in ChunkCountInputs :
       \E ts \in TimestampInputs(v, vid) : SettleSession(v, vid, n, ts)
  \/ \E v \in VS, vid \in DS : RevokeDelegate(v, vid)
  \/ \E signer \in AllViewers, v \in VS, vid \in DS : CloseViewerSession(signer, v, vid)
  \/ \E vid \in DS, p \in PriceInputs \cup {NONE}, a \in ActiveInputs :
       UpdateVideo(vid, p, a)
  \/ \E t \in Instants : Tick(t)

\* one viewer streaming one video
Next == NextOver({"v1"}, {"vidA"})

Spec == Init /\ [][Next]_vars

\* The settlement paths alone, for every fee rate the platform may be
\* initialized with and at prices that make the fee division inexact
FeeSpecRates == {0, 1, DEFAULT_PLATFORM_FEE_BPS, 333, MAX_PLATFORM_FEE_BPS}

InitFee == InitWith(FeeSpecRates)

NextFee ==
  \/ \E n \in ApproveInputs : ApproveDelegate("v1", "vidA", n)
  \/ \E i \in ChunkIndexInputs : PayForChunk("v1", "vidA", i)
  \/ \E n \in ChunkCountInputs :
       \E ts \in TimestampInputs("v1", "vidA") : SettleSession("v1", "vidA", n, ts)
  \/ \E p \in {MIN_PRICE_PER_CHUNK + 1, MIN_PRICE_PER_CHUNK + 250} :
       UpdateVideo("vidA", p, "None")

SpecFee == InitFee /\ [][NextFee]_vars

\* Any wallet signing any instruction with any accounts: `signer` passes the
\* session record of (v, vid) and the token account of tv.  Two viewers on one
\* video, at one instant.
CallerApproveInputs == {1, 2}
CallerChunkCounts == {1, 2}

ApproveDelegateAs(signer, v, tv, vid, max_chunks) ==
  /\ viewer_session[<<v, vid>>].session_start = 0 => platform.total_sessions < MaxSessions
  /\ Commit("approve", v, vid, max_chunks, NONE,
            approve_streaming_delegate_as(signer, v, tv, vid, max_chunks))
  /\ UNCHANGED <<event_logs, closed_totals>>

PayForChunkAs(signer, v, tv, vid, chunk_index) ==
  /\ Commit("pay", v, vid, chunk_index, NONE,
            pay_for_chunk_as(signer, v, tv, vid, chunk_index))
  /\ chunk_paid_log' = [chunk_paid_log EXCEPT ![<<v, vid>>] = Append(@, chunk_index)]
  /\ chunk_paid_events' =
       [chunk_paid_events EXCEPT ![<<v, vid>>] =
          Append(@, ChunkPaid(pay_for_chunk_as(signer, v, tv, vid, chunk_index).session))]
  /\ UNCHANGED closed_totals

SettleSessionAs(signer, v, tv, vid, chunk_count, settlement_timestamp) ==
  /\ Commit("settle", v, vid, chunk_count, settlement_timestamp,
            settle_session_as(signer, v, tv, vid, chunk_count, settlement_timestamp))
  /\ UNCHANGED <<event_logs, closed_totals>>

RevokeDelegateAs(signer, v, tv, vid) ==
  /\ Commit("revoke", v, vid, NONE, NONE, revoke_streaming_delegate_as(signer, v, tv, vid))
  /\ UNCHANGED <<event_logs, closed_totals>>

NextCallers ==
  \E signer \in AllViewers, v \in AllViewers, tv \in AllViewers :
    \/ \E n \in CallerApproveInputs : ApproveDelegateAs(signer, v, tv, "vidA", n)
    \/ \E i \in ChunkIndexInputs : PayForChunkAs(signer, v, tv, "vidA", i)
    \/ \E n \in CallerChunkCounts : SettleSessionAs(signer, v, tv, "vidA", n, now)
    \/ RevokeDelegateAs(signer, v, tv, "vidA")
    \/ CloseViewerSession(signer, v, "vidA")

SpecCallers == Init /\ [][NextCallers]_vars

\* One viewer with a single session record that is never revoked nor closed,
\* at one instant: approvals, unit and batch settlements, and the creator
\* changing the price
NextSingleSession ==
  \/ \E n \in CallerApproveInputs : ApproveDelegate("v1", "vidA", n)
  \/ \E i \in ChunkIndexInputs : PayForChunk("v1", "vidA", i)
  \/ \E n \in CallerChunkCounts : SettleSession("v1", "vidA", n, now)
  \/ \E p \in Prices : UpdateVideo("vidA", p, "None")

\* a balance that covers every re-approval the viewer may ask for
SingleSessionBalance == 2 * InitialBalance

InitSingleSession == InitOver(FeeRates, SingleSessionBalance)

SpecSingleSession == InitSingleSession /\ [][NextSingleSession]_vars

\* One viewer with sessions on two videos, paid from the same token account,
\* never revoked nor closed, at one instant
NextTwoVideos ==
  \E vid \in AllVideos :
    \/ \E n \in CallerApproveInputs : ApproveDelegate("v1", vid, n)
    \/ \E i \in ChunkIndexInputs : PayForChunk("v1", vid, i)
    \/ \E n \in CallerChunkCounts : SettleSession("v1", vid, n, now)

SpecTwoVideos == Init /\ [][NextTwoVideos]_vars

\* Platform::calculate_platform_fee alone, as a function of the rate field of the
\* Platform it is called on (any u16) and of the amount (any u64)
FeeFnRates == {0, 1, DEFAULT_PLATFORM_FEE_BPS, MAX_PLATFORM_FEE_BPS, BASIS_POINTS,
               BASIS_POINTS + 1, 2 * BASIS_POINTS, U16_MAX}
FeeFnAmounts ==
  {0, 1, 39, 40, BASIS_POINTS - 1, BASIS_POINTS, BASIS_POINTS + 1, 123456789,
   U64_MAX \div U16_MAX, U64_MAX \div 7, U64_MAX \div 2, (U64_MAX \div 2) + 1,
   U64_MAX - BASIS_POINTS, U64_MAX - 1, U64_MAX}

InitFeeFn == InitWith(FeeFnRates)

\* platform.calculate_platform_fee(amount)
ApplyFee(amount) ==
  /\ last' = Last("fee", "-", "-", amount, NONE, amount,
                  calculate_platform_fee(platform, amount), 0, FALSE)
  /\ UNCHANGED <<now, accounts, event_logs, closed_totals>>

NextFeeFn == \E amount \in FeeFnAmounts : ApplyFee(amount)

SpecFeeFn == InitFeeFn /\ [][NextFeeFn]_vars

\* ------------------------------------------------------------------------
\* Properties
\* ------------------------------------------------------------------------
Keys == AllViewers \X AllVideos

\* the outcome carries the accounts exactly as they are now
LeavesAllUnchanged(o, v, vid) ==
  /\ o.session = viewer_session[<<v, vid>>]
  /\ o.video = video[vid]
  /\ o.earnings = creator_earnings[vid]
  /\ o.platform = platform
  /\ o.vtoken = viewer_token_account[v]
  /\ o.ctoken = creator_token_account[vid]
  /\ o.ptoken = platform_token_account

Rejected(o, v, vid) == o.err # "Ok" /\ LeavesAllUnchanged(o, v, vid)

\* the session is neither Expired nor Inactive at the current time
Live(s) ==
  /\ now - s.session_start <= SESSION_EXPIRY_DURATION
  /\ now - s.last_activity <= SESSION_INACTIVITY_DURATION

\* C1: in every reachable state every existing session satisfies
\* chunks_consumed <= max_approved_chunks.
C1_ConsumedWithinCeiling ==
  \A k \in Keys :
    viewer_session[k].exists
      => viewer_session[k].chunks_consumed <= viewer_session[k].max_approved_chunks

\* a session that settlements have filled up to its ceiling
C1_Witness ==
  \E k \in Keys :
    /\ viewer_session[k].exists
    /\ last.op \in {"pay", "settle"}
    /\ viewer_session[k].chunks_consumed = viewer_session[k].max_approved_chunks
    /\ viewer_session[k].chunks_consumed >= 2

\* the index the claim allows next: 0 when nothing was paid, else marker + 1
C2_NextIndex(s) ==
  IF s.last_paid_chunk_index = NONE THEN 0 ELSE s.last_paid_chunk_index + 1

\* C2: pay_for_chunk(i) succeeds only for i = 0 on a session with no paid chunk or
\* for i = last_paid_chunk_index + 1; any other index is rejected (as
\* OutOfSequenceChunk when no earlier check fails) and leaves every account
\* unchanged; the indices paid on a session record are exactly 0,1,2,... in order.
C2_StrictSequence ==
  \A v \in AllViewers, vid \in AllVideos :
    LET s == viewer_session[<<v, vid>>]
        log == chunk_paid_log[<<v, vid>>]
    IN s.exists =>
         /\ \A i \in 0 .. (VideoChunks + 1) :
              LET o == pay_for_chunk(v, vid, i)
              IN /\ o.err = "Ok" => i = C2_NextIndex(s)
                 /\ i # C2_NextIndex(s) =>
                      /\ Rejected(o, v, vid)
                      /\ ( /\ video[vid].is_active
                           /\ Live(s)
                           /\ i < video[vid].total_chunks
                           /\ s.chunks_consumed < s.max_approved_chunks )
                         => o.err = "OutOfSequenceChunk"
         /\ \A j \in 1 .. Len(log) : log[j] = j - 1
         /\ s.last_paid_chunk_index = (IF Len(log) = 0 THEN NONE ELSE Len(log) - 1)

\* chunks 0 and 1 were paid, and paying chunk 1 again is refused as out of sequence
C2_Witness ==
  \E v \in AllViewers, vid \in AllVideos :
    /\ last.op = "pay" /\ last.viewer = v /\ last.video = vid /\ last.arg = 1
    /\ chunk_paid_log[<<v, vid>>] = <<0, 1>>
    /\ pay_for_chunk(v, vid, 1).err = "OutOfSequenceChunk"
    /\ pay_for_chunk(v, vid, 0).err = "OutOfSequenceChunk"

\* C3: a successful re-approval of r chunks on a session with ceiling c and k
\* consumed sets the delegated amount to exactly (c + r - k) * price (the video's
\* current price), replacing the previous delegation; it is not previous + r * price.
C3_ReapprovalReplaces ==
  [][ \A v \in AllViewers, vid \in AllVideos :
        ( /\ last'.op = "approve" /\ last'.viewer = v /\ last'.video = vid
          /\ viewer_session[<<v, vid>>].exists )
        => LET s == viewer_session[<<v, vid>>]
               r == last'.arg
               total == (s.max_approved_chunks + r - s.chunks_consumed)
                          * video[vid].price_per_chunk
               incremental == viewer_token_account[v].delegated_amount
                                + r * video[vid].price_per_chunk
           IN /\ viewer_token_account'[v].delegate
              /\ viewer_token_account'[v].delegated_amount = total
              /\ incremental # total
                   => viewer_token_account'[v].delegated_amount # incremental
    ]_vars

\* a re-approval after a chunk was consumed, while a delegation was outstanding
C3_Witness ==
  \E v \in AllViewers, vid \in AllVideos :
    LET s == viewer_session[<<v, vid>>]
    IN /\ last.op = "approve" /\ last.viewer = v /\ last.video = vid
       /\ s.exists
       /\ s.max_approved_chunks > last.arg
       /\ s.chunks_consumed > 0
       /\ s.max_approved_chunks - s.chunks_consumed > last.arg
       /\ viewer_token_account[v].delegated_amount
            = (s.max_approved_chunks - s.chunks_consumed) * video[vid].price_per_chunk

\* C4: every successful unit or batch settlement of amount a under fee rate
\* rate_bps <= 10000 has fee = floor(a * rate_bps / 10000) (never rounded up),
\* owner share = a - fee, fee + owner share = a, and debits the viewer exactly a
\* (the owner share reaching the creator, the fee the platform).
C4_FeeSplit ==
  [][ \A v \in AllViewers, vid \in AllVideos :
        ( /\ last'.op \in {"pay", "settle"} /\ last'.viewer = v /\ last'.video = vid )
        => LET s == viewer_session[<<v, vid>>]
               rate == platform.platform_fee_basis_points
               a == IF last'.op = "pay"
                      THEN video[vid].price_per_chunk
                      ELSE s.approved_price_per_chunk * last'.arg
               fee == platform_token_account' - platform_token_account
               owner_share == creator_token_account'[vid] - creator_token_account[vid]
           IN /\ rate <= BASIS_POINTS
              /\ last'.amount = a
              /\ last'.fee = fee
              /\ last'.creator_amount = owner_share
              /\ fee * BASIS_POINTS <= a * rate
              /\ a * rate < (fee + 1) * BASIS_POINTS
              /\ owner_share = a - fee
              /\ fee + owner_share = a
              /\ viewer_token_account'[v].amount = viewer_token_account[v].amount - a
    ]_vars

\* a settlement whose fee division was inexact and whose fee is not zero
C4_Witness ==
  /\ last.op \in {"pay", "settle"}
  /\ last.fee > 0
  /\ last.fee * BASIS_POINTS < last.amount * platform.platform_fee_basis_points
  /\ last.fee + last.creator_amount = last.amount

\* C5: pay_for_chunk is rejected whenever the video's current price differs from
\* the session's locked price, raised or lowered (with PriceChangedSinceApproval
\* when no earlier check fails), and the rejection leaves every account unchanged.
C5_PriceChangeRejected ==
  \A v \in AllViewers, vid \in AllVideos :
    LET s == viewer_session[<<v, vid>>]
    IN ( s.exists /\ video[vid].price_per_chunk # s.approved_price_per_chunk )
       => \A i \in 0 .. (VideoChunks + 1) :
            LET o == pay_for_chunk(v, vid, i)
            IN /\ Rejected(o, v, vid)
               /\ ( /\ video[vid].is_active
                    /\ Live(s)
                    /\ i < video[vid].total_chunks
                    /\ s.chunks_consumed < s.max_approved_chunks
                    /\ i = C2_NextIndex(s) )
                  => o.err = "PriceChangedSinceApproval"

\* the price was lowered below the locked price and the next chunk is refused for it
C5_Witness ==
  \E v \in AllViewers, vid \in AllVideos :
    LET s == viewer_session[<<v, vid>>]
    IN /\ s.exists
       /\ last.op = "update"
       /\ video[vid].price_per_chunk < s.approved_price_per_chunk
       /\ pay_for_chunk(v, vid, C2_NextIndex(s)).err = "PriceChangedSinceApproval"

\* C6: settle_session(chunk_count) is rejected, every account unchanged, whenever
\* chunks_consumed + chunk_count > max_approved_chunks (also when the u32 addition
\* overflows), and whenever chunk_count = 0.
C6_BatchBeyondCeilingRejected ==
  \A v \in AllViewers, vid \in AllVideos :
    LET s == viewer_session[<<v, vid>>]
    IN s.exists =>
         \A n \in ChunkCountInputs \cup (0 .. (s.max_approved_chunks + 2)) :
           \A ts \in TimestampInputs(v, vid) :
             ( n = 0 \/ n > s.max_approved_chunks - s.chunks_consumed )
             => Rejected(settle_session(v, vid, n, ts), v, vid)

\* a live session with funds where one batch is refused for exceeding the approval
\* and another because the u32 addition overflows
C6_Witness ==
  \E v \in AllViewers, vid \in AllVideos :
    LET s == viewer_session[<<v, vid>>]
    IN /\ s.exists
       /\ last.op = "settle"
       /\ s.chunks_consumed >= 1
       /\ settle_session(v, vid, 1, now).err = "Ok"
       /\ settle_session(v, vid, s.max_approved_chunks - s.chunks_consumed + 1, now).err
            = "SettlementExceedsApproval"
       /\ settle_session(v, vid, U32_MAX, now).err = "ArithmeticOverflow"
       /\ settle_session(v, vid, 0, now).err = "InvalidChunkCount"

\* C7: settle_session is rejected when settlement_timestamp < session_start or
\* settlement_timestamp > now (as SettlementTooOld / SettlementInFuture when no
\* earlier check fails), and no settlement_timestamp in [session_start, now],
\* endpoints included, is rejected on timestamp grounds.
C7_TimestampWindow ==
  \A v \in AllViewers, vid \in AllVideos :
    LET s == viewer_session[<<v, vid>>]
        unexpired == now - s.session_start <= SESSION_EXPIRY_DURATION
    IN s.exists =>
         \A n \in ChunkCountInputs, ts \in TimestampInputs(v, vid) \cup Instants :
           LET o == settle_session(v, vid, n, ts)
           IN /\ ( ts < s.session_start \/ ts > now ) => Rejected(o, v, vid)
              /\ ( ts < s.session_start /\ video[vid].is_active /\ n > 0 /\ unexpired )
                   => o.err = "SettlementTooOld"
              /\ ( ts >= s.session_start /\ ts > now
                   /\ video[vid].is_active /\ n > 0 /\ unexpired )
                   => o.err = "SettlementInFuture"
              /\ ( s.session_start <= ts /\ ts <= now )
                   => o.err \notin {"SettlementTooOld", "SettlementInFuture"}

\* a batch reported at exactly session_start was settled at a later time, and one
\* reported at exactly now would be settled too
C7_Witness ==
  \E v \in AllViewers, vid \in AllVideos :
    LET s == viewer_session[<<v, vid>>]
    IN /\ s.exists
       /\ last.op = "settle" /\ last.viewer = v /\ last.video = vid
       /\ last.ts = s.session_start
       /\ s.session_start < now
       /\ settle_session(v, vid, 1, now).err = "Ok"
       /\ settle_session(v, vid, 1, s.session_start - 1).err = "SettlementTooOld"
       /\ settle_session(v, vid, 1, now + 1).err = "SettlementInFuture"

\* C8: the first successful approval of n chunks for a (viewer, video) pair with
\* no session creates a session with ceiling n, consumed 0, total spent 0, locked
\* price = the video's current price p, no last-paid marker, session_start and
\* last_activity = now, and sets the delegated amount to exactly n * p.
C8_FirstApproval ==
  [][ \A v \in AllViewers, vid \in AllVideos :
        ( /\ last'.op = "approve" /\ last'.viewer = v /\ last'.video = vid
          /\ ~viewer_session[<<v, vid>>].exists )
        => LET n == last'.arg
               p == video[vid].price_per_chunk
               s == viewer_session'[<<v, vid>>]
           IN /\ s.exists
              /\ s.max_approved_chunks = n
              /\ s.chunks_consumed = 0
              /\ s.total_spent = 0
              /\ s.approved_price_per_chunk = p
              /\ s.last_paid_chunk_index = NONE
              /\ s.session_start = now
              /\ s.last_activity = now
              /\ viewer_token_account'[v].delegate
              /\ viewer_token_account'[v].delegated_amount = n * p
              /\ viewer_token_account'[v].amount = viewer_token_account[v].amount
    ]_vars

\* a second session record just opened for 2 chunks, after the first instant, by
\* a viewer who had already spent tokens on the first one
C8_Witness ==
  \E v \in AllViewers, vid \in AllVideos :
    LET s == viewer_session[<<v, vid>>]
    IN /\ last.op = "approve" /\ last.viewer = v /\ last.video = vid /\ last.arg = 2
       /\ s.exists
       /\ s.max_approved_chunks = 2
       /\ s.chunks_consumed = 0
       /\ s.session_start = now /\ now > GenesisTime
       /\ platform.total_sessions = 2
       /\ viewer_token_account[v].amount < InitialBalance
       /\ viewer_token_account[v].delegated_amount = 2 * s.approved_price_per_chunk

\* C9: a successful settle_session of k chunks prices the batch at the session's
\* locked price, also when the video's current price differs
\* (total = approved_price_per_chunk * k), and in one step increases
\* chunks_consumed by k, total_spent by total, the video's total_chunks_served by
\* k, the earnings' total_chunks_sold by k and total_earned by total - fee, and
\* the platform's total_revenue by fee.
C9_BatchAtLockedPrice ==
  [][ \A v \in AllViewers, vid \in AllVideos :
        ( /\ last'.op = "settle" /\ last'.viewer = v /\ last'.video = vid )
        => LET s == viewer_session[<<v, vid>>]
               s1 == viewer_session'[<<v, vid>>]
               k == last'.arg
               total == s.approved_price_per_chunk * k
               fee == last'.fee
           IN /\ last'.amount = total
              /\ viewer_token_account'[v].amount = viewer_token_account[v].amount - total
              /\ platform_token_account' = platform_token_account + fee
              /\ s1.chunks_consumed = s.chunks_consumed + k
              /\ s1.total_spent = s.total_spent + total
              /\ video'[vid].total_chunks_served = video[vid].total_chunks_served + k
              /\ creator_earnings'[vid].total_chunks_sold
                   = creator_earnings[vid].total_chunks_sold + k
              /\ creator_earnings'[vid].total_earned
                   = creator_earnings[vid].total_earned + (total - fee)
              /\ platform'.total_revenue = platform.total_revenue + fee
    ]_vars

\* a batch of 2 chunks settled at the locked price while the video's current
\* price is a different one
C9_Witness ==
  \E v \in AllViewers, vid \in AllVideos :
    LET s == viewer_session[<<v, vid>>]
    IN /\ last.op = "settle" /\ last.viewer = v /\ last.video = vid /\ last.arg = 2
       /\ s.exists
       /\ video[vid].price_per_chunk # s.approved_price_per_chunk
       /\ last.amount = 2 * s.approved_price_per_chunk
       /\ last.fee > 0

\* C10: on a session whose last activity is more than 1h ago but whose start is
\* within 24h, pay_for_chunk is rejected as SessionInactive, while settle_session
\* with a timestamp in [session_start, now] and a chunk_count within the remaining
\* approval is never refused for inactivity, and succeeds when the viewer's balance
\* and delegation cover the batch.
C10_InactiveBatchStillSettles ==
  \A v \in AllViewers, vid \in AllVideos :
    LET s == viewer_session[<<v, vid>>]
        vt == viewer_token_account[v]
    IN ( /\ s.exists
         /\ video[vid].is_active
         /\ now - s.last_activity > SESSION_INACTIVITY_DURATION
         /\ now - s.session_start <= SESSION_EXPIRY_DURATION )
       => /\ \A i \in 0 .. (VideoChunks + 1) :
               /\ pay_for_chunk(v, vid, i).err = "SessionInactive"
               /\ Rejected(pay_for_chunk(v, vid, i), v, vid)
          /\ \A n \in 1 .. (s.max_approved_chunks - s.chunks_consumed) :
               \A ts \in {s.session_start, s.last_activity, now} :
                 LET o == settle_session(v, vid, n, ts)
                     total == s.approved_price_per_chunk * n
                 IN /\ o.err \in {"Ok", "InsufficientBalance", "TokenError"}
                    /\ ( /\ vt.amount >= total
                         /\ vt.delegate
                         /\ vt.delegated_amount >= total )
                       => /\ o.err = "Ok"
                          /\ o.session.chunks_consumed = s.chunks_consumed + n

\* a batch was settled on a session that was inactive (and not expired) when the
\* batch arrived, reported at a time within the activity window before the gap
C10_Witness ==
  \E v \in AllViewers, vid \in AllVideos :
    LET s == viewer_session[<<v, vid>>]
    IN /\ last.op = "settle" /\ last.viewer = v /\ last.video = vid
       /\ last.was_inactive
       /\ s.exists
       /\ last.ts = s.session_start
       /\ now - last.ts > SESSION_INACTIVITY_DURATION
       /\ now - s.session_start <= SESSION_EXPIRY_DURATION
       /\ s.chunks_consumed >= 1

C12_LockedPriceNeverChanges ==
  [][ \A k \in Keys :
        ( viewer_session[k].exists /\ viewer_session'[k].exists )
        => viewer_session'[k].approved_price_per_chunk
             = viewer_session[k].approved_price_per_chunk
    ]_vars

\* a re-approval went through while the video's price differed from the locked
\* price, and the locked price is still the one of the first approval
C12_Witness ==
  \E v \in AllViewers, vid \in AllVideos :
    LET s == viewer_session[<<v, vid>>]
    IN /\ last.op = "approve" /\ last.viewer = v /\ last.video = vid
       /\ s.exists
       /\ s.max_approved_chunks > last.arg
       /\ video[vid].price_per_chunk = 2 * MIN_PRICE_PER_CHUNK
       /\ s.approved_price_per_chunk = MIN_PRICE_PER_CHUNK
       /\ last.amount = (s.max_approved_chunks - s.chunks_consumed)
                          * video[vid].price_per_chunk

\* C13: a successful settle_session leaves last_paid_chunk_index as it was: after
\* it, on a session with no paid chunk the marker is still absent and the only
\* index pay_for_chunk accepts is 0, and on a session with marker m the only
\* index accepted is still m + 1.
C13_BatchKeepsMarker ==
  [][ \A v \in AllViewers, vid \in AllVideos :
        ( /\ last'.op = "settle" /\ last'.viewer = v /\ last'.video = vid )
        => LET m == viewer_session[<<v, vid>>].last_paid_chunk_index
               expected == IF m = NONE THEN 0 ELSE m + 1
           IN /\ viewer_session'[<<v, vid>>].last_paid_chunk_index = m
              /\ \A i \in 0 .. (VideoChunks + 1) :
                   (pay_for_chunk(v, vid, i).err = "Ok")' => i = expected
    ]_vars

\* a batch was settled on a session that never paid a single chunk: chunks are
\* counted as consumed, the marker is absent and chunk 0 is the one accepted
C13_Witness ==
  \E v \in AllViewers, vid \in AllVideos :
    LET s == viewer_session[<<v, vid>>]
    IN /\ last.op = "settle" /\ last.viewer = v /\ last.video = vid
       /\ s.exists
       /\ s.chunks_consumed >= 1
       /\ s.last_paid_chunk_index = NONE
       /\ pay_for_chunk(v, vid, 0).err = "Ok"
       /\ pay_for_chunk(v, vid, 1).err = "OutOfSequenceChunk"

\* C14: approve on an existing session that is Expired (now - session_start > 24h)
\* or Inactive (now - last_activity > 1h) is rejected, for every max_chunks (as
\* SessionExpired, else SessionInactive, when the video is active and max_chunks
\* is valid), and the rejection leaves max_approved_chunks, last_activity, the
\* delegation and every other account unchanged.
C14_ReapprovalRejectedWhenStale ==
  \A v \in AllViewers, vid \in AllVideos :
    LET s == viewer_session[<<v, vid>>]
        expired == now - s.session_start > SESSION_EXPIRY_DURATION
        inactive == now - s.last_activity > SESSION_INACTIVITY_DURATION
    IN ( s.exists /\ (expired \/ inactive) )
       => \A n \in ApproveInputs :
            LET o == approve_streaming_delegate(v, vid, n)
            IN /\ Rejected(o, v, vid)
               /\ o.session.max_approved_chunks = s.max_approved_chunks
               /\ o.session.last_activity = s.last_activity
               /\ o.vtoken.delegated_amount = viewer_token_account[v].delegated_amount
               /\ ( video[vid].is_active /\ 0 < n /\ n <= MAX_CHUNKS_PER_APPROVAL )
                    => o.err = (IF expired THEN "SessionExpired" ELSE "SessionInactive")

\* a session past its 24h whose last activity is recent (a batch was settled just
\* before it expired): the re-approval is refused as expired, with funds at hand
C14_Witness ==
  \E v \in AllViewers, vid \in AllVideos :
    LET s == viewer_session[<<v, vid>>]
    IN /\ s.exists
       /\ now - s.session_start > SESSION_EXPIRY_DURATION
       /\ now - s.last_activity <= SESSION_INACTIVITY_DURATION
       /\ video[vid].is_active
       /\ viewer_token_account[v].amount
            >= (s.max_approved_chunks + 1 - s.chunks_consumed) * video[vid].price_per_chunk
       /\ approve_streaming_delegate(v, vid, 1).err = "SessionExpired"

\* C15: Expired is terminal for a session record.  While the record exists and
\* now - session_start > 24h, every approve, pay_for_chunk and settle_session on
\* it is rejected with every account unchanged (as SessionExpired when no check
\* placed before the expiry check fails); no step changes session_start of an
\* existing record, and no step takes an expired record out of Expired other
\* than closing it.
C15_ExpiredIsTerminal ==
  /\ [] ( \A v \in AllViewers, vid \in AllVideos :
            LET s == viewer_session[<<v, vid>>]
            IN ( s.exists /\ now - s.session_start > SESSION_EXPIRY_DURATION )
               => /\ \A n \in ApproveInputs :
                       LET o == approve_streaming_delegate(v, vid, n)
                       IN /\ Rejected(o, v, vid)
                          /\ ( video[vid].is_active /\ valid_max_chunks(n) )
                               => o.err = "SessionExpired"
                  /\ \A i \in 0 .. (VideoChunks + 1) :
                       LET o == pay_for_chunk(v, vid, i)
                       IN /\ Rejected(o, v, vid)
                          /\ video[vid].is_active => o.err = "SessionExpired"
                  /\ \A n \in ChunkCountInputs, ts \in TimestampInputs(v, vid) :
                       LET o == settle_session(v, vid, n, ts)
                       IN /\ Rejected(o, v, vid)
                          /\ ( video[vid].is_active /\ n > 0 )
                               => o.err = "SessionExpired" )
  /\ [][ \A k \in Keys :
           ( viewer_session[k].exists /\ viewer_session'[k].exists )
           => /\ viewer_session'[k].session_start = viewer_session[k].session_start
              /\ now - viewer_session[k].session_start > SESSION_EXPIRY_DURATION
                   => now' - viewer_session'[k].session_start > SESSION_EXPIRY_DURATION
       ]_vars

\* an expired record, after a revoke that came after the expiry: the three
\* operations are still refused as expired
C15_Witness ==
  \E v \in AllViewers, vid \in AllVideos :
    LET s == viewer_session[<<v, vid>>]
    IN /\ s.exists
       /\ now - s.session_start > SESSION_EXPIRY_DURATION
       /\ last.op = "revoke" /\ last.viewer = v /\ last.video = vid
       /\ s.chunks_consumed < s.max_approved_chunks
       /\ approve_streaming_delegate(v, vid, 1).err = "SessionExpired"
       /\ pay_for_chunk(v, vid, C2_NextIndex(s)).err = "SessionExpired"
       /\ settle_session(v, vid, 1, now).err = "SessionExpired"

\* C16 as claimed: once an existing session record is Inactive
\* (now - last_activity > 1h), no step makes that same record active again.
C16_InactiveNeverRevives ==
  [][ \A k \in Keys :
        ( /\ viewer_session[k].exists /\ viewer_session'[k].exists
          /\ now - viewer_session[k].last_activity > SESSION_INACTIVITY_DURATION )
        => now' - viewer_session'[k].last_activity > SESSION_INACTIVITY_DURATION
    ]_vars

\* C16, amended: while an existing session record is Inactive, pay_for_chunk and
\* approve on it are rejected with every account unchanged (as SessionInactive
\* when the session is unexpired, the video active and max_chunks valid), and
\* the only step that makes the same record active again is a successful
\* settle_session on it, which sets last_activity to now.
C16_OnlyBatchRevives ==
  /\ [] ( \A v \in AllViewers, vid \in AllVideos :
            LET s == viewer_session[<<v, vid>>]
                unexpired == now - s.session_start <= SESSION_EXPIRY_DURATION
            IN ( s.exists /\ now - s.last_activity > SESSION_INACTIVITY_DURATION )
               => /\ \A i \in 0 .. (VideoChunks + 1) :
                       LET o == pay_for_chunk(v, vid, i)
                       IN /\ Rejected(o, v, vid)
                          /\ ( video[vid].is_active /\ unexpired )
                               => o.err = "SessionInactive"
                  /\ \A n \in ApproveInputs :
                       LET o == approve_streaming_delegate(v, vid, n)
                       IN /\ Rejected(o, v, vid)
                          /\ ( video[vid].is_active /\ valid_max_chunks(n) /\ unexpired )
                               => o.err = "SessionInactive" )
  /\ [][ \A v \in AllViewers, vid \in AllVideos :
           ( /\ viewer_session[<<v, vid>>].exists /\ viewer_session'[<<v, vid>>].exists
             /\ now - viewer_session[<<v, vid>>].last_activity
                  > SESSION_INACTIVITY_DURATION
             /\ now' - viewer_session'[<<v, vid>>].last_activity
                  <= SESSION_INACTIVITY_DURATION )
           => /\ last'.op = "settle" /\ last'.viewer = v /\ last'.video = vid
              /\ viewer_session'[<<v, vid>>].last_activity = now
       ]_vars

\* a batch settled on an inactive record has made it active again: the same
\* record now accepts a re-approval and the next chunk
C16_Witness ==
  \E v \in AllViewers, vid \in AllVideos :
    LET s == viewer_session[<<v, vid>>]
    IN /\ last.op = "settle" /\ last.viewer = v /\ last.video = vid
       /\ last.was_inactive
       /\ s.exists
       /\ s.session_start < now
       /\ s.last_activity = now
       /\ approve_streaming_delegate(v, vid, 1).err = "Ok"
       /\ pay_for_chunk(v, vid, C2_NextIndex(s)).err = "Ok"

\* C17: no pay_for_chunk or settle_session succeeds for a (viewer, video) pair
\* that has no session record, a record comes into existence only by a
\* successful approve for the pair, and on a record with
\* chunks_consumed = max_approved_chunks both settlement paths are rejected for
\* every input with every account unchanged.
C17_NeedsApprovalAndRemainingChunks ==
  /\ [] ( \A v \in AllViewers, vid \in AllVideos :
            LET s == viewer_session[<<v, vid>>]
            IN ( ~s.exists \/ s.chunks_consumed = s.max_approved_chunks )
               => /\ \A i \in 0 .. (VideoChunks + 1) :
                       LET o == pay_for_chunk(v, vid, i)
                       IN /\ Rejected(o, v, vid)
                          /\ ( /\ s.exists /\ video[vid].is_active /\ Live(s)
                               /\ i < video[vid].total_chunks )
                             => o.err = "InsufficientApproval"
                  /\ \A n \in ChunkCountInputs, ts \in TimestampInputs(v, vid) :
                       Rejected(settle_session(v, vid, n, ts), v, vid) )
  /\ [][ \A v \in AllViewers, vid \in AllVideos :
           /\ ( ~viewer_session[<<v, vid>>].exists /\ viewer_session'[<<v, vid>>].exists )
                => ( last'.op = "approve" /\ last'.viewer = v /\ last'.video = vid )
           /\ ( last'.op \in {"pay", "settle"} /\ last'.viewer = v /\ last'.video = vid )
                => /\ viewer_session[<<v, vid>>].exists
                   /\ viewer_session[<<v, vid>>].chunks_consumed
                        < viewer_session[<<v, vid>>].max_approved_chunks
       ]_vars

\* a live session consumed up to its ceiling whose viewer still has balance and
\* delegation for another chunk at the locked price, which is the video's price:
\* the next chunk and a batch of one are refused for want of approved chunks
C17_Witness ==
  \E v \in AllViewers, vid \in AllVideos :
    LET s == viewer_session[<<v, vid>>]
        vt == viewer_token_account[v]
    IN /\ s.exists
       /\ s.chunks_consumed = s.max_approved_chunks
       /\ video[vid].price_per_chunk = s.approved_price_per_chunk
       /\ vt.amount >= s.approved_price_per_chunk
       /\ vt.delegate /\ vt.delegated_amount >= s.approved_price_per_chunk
       /\ C2_NextIndex(s) < video[vid].total_chunks
       /\ pay_for_chunk(v, vid, C2_NextIndex(s)).err = "InsufficientApproval"
       /\ settle_session(v, vid, 1, now).err = "SettlementExceedsApproval"

\* C18: a successful pay_for_chunk(chunk_index) at price p with fee f increases
\* the session's chunks_consumed by 1 and total_spent by p, sets last_activity to
\* now and last_paid_chunk_index to chunk_index, increases the video's
\* total_chunks_served by 1, the earnings' total_earned by p - f and
\* total_chunks_sold by 1 and the platform's total_revenue by f; of the records,
\* nothing else changes except total_sessions of the video and of the earnings,
\* which grow by 1 exactly when this is the session's first consumed chunk.
C18_UnitSettlementEffects ==
  [][ \A v \in AllViewers, vid \in AllVideos :
        ( /\ last'.op = "pay" /\ last'.viewer = v /\ last'.video = vid )
        => LET s == viewer_session[<<v, vid>>]
               p == video[vid].price_per_chunk
               f == last'.fee
               first == IF s.chunks_consumed = 0 THEN 1 ELSE 0
           IN /\ f = calculate_platform_fee(platform, p)
              /\ viewer_session'[<<v, vid>>] =
                   [s EXCEPT !.chunks_consumed = @ + 1,
                             !.total_spent = @ + p,
                             !.last_activity = now,
                             !.last_paid_chunk_index = last'.arg]
              /\ video'[vid] =
                   [video[vid] EXCEPT !.total_chunks_served = @ + 1,
                                      !.total_sessions = @ + first]
              /\ creator_earnings'[vid] =
                   [creator_earnings[vid] EXCEPT !.total_earned = @ + (p - f),
                                                 !.total_chunks_sold = @ + 1,
                                                 !.total_sessions = @ + first]
              /\ platform' = [platform EXCEPT !.total_revenue = @ + f]
              /\ \A k \in Keys \ {<<v, vid>>} : viewer_session'[k] = viewer_session[k]
              /\ \A d \in AllVideos \ {vid} :
                   video'[d] = video[d] /\ creator_earnings'[d] = creator_earnings[d]
    ]_vars

\* the second chunk of a session was paid some time after the session started,
\* with a fee: the session counters of the video stayed at one
C18_Witness ==
  \E v \in AllViewers, vid \in AllVideos :
    LET s == viewer_session[<<v, vid>>]
    IN /\ last.op = "pay" /\ last.viewer = v /\ last.video = vid /\ last.arg = 1
       /\ s.exists
       /\ s.chunks_consumed = 2
       /\ s.last_paid_chunk_index = 1
       /\ s.last_activity = now /\ now > s.session_start
       /\ last.fee > 0
       /\ last.creator_amount = last.amount - last.fee
       /\ video[vid].total_sessions = 1

\* C19: a successful revoke sets the viewer's delegated amount to zero (no
\* delegate) and leaves the session record (ceiling, chunks_consumed,
\* total_spent, locked price, marker, timestamps), the video, earnings and
\* platform records and every balance unchanged.
C19_RevokeOnlyClearsDelegation ==
  [][ \A v \in AllViewers, vid \in AllVideos :
        ( /\ last'.op = "revoke" /\ last'.viewer = v /\ last'.video = vid )
        => /\ viewer_session[<<v, vid>>].exists
           /\ viewer_token_account'[v].delegated_amount = 0
           /\ ~viewer_token_account'[v].delegate
           /\ viewer_token_account'[v].amount = viewer_token_account[v].amount
           /\ UNCHANGED <<viewer_session, video, creator_earnings, platform,
                          creator_token_account, platform_token_account>>
    ]_vars

\* a revoke on a live session with approved chunks left and balance for them:
\* nothing is delegated any more, and the next chunk fails in the token transfer
C19_Witness ==
  \E v \in AllViewers, vid \in AllVideos :
    LET s == viewer_session[<<v, vid>>]
    IN /\ last.op = "revoke" /\ last.viewer = v /\ last.video = vid
       /\ s.exists
       /\ s.chunks_consumed >= 1
       /\ s.chunks_consumed < s.max_approved_chunks
       /\ last.amount = s.total_spent
       /\ viewer_token_account[v].delegated_amount = 0
       /\ viewer_token_account[v].amount >= s.approved_price_per_chunk
       /\ pay_for_chunk(v, vid, C2_NextIndex(s)).err = "TokenError"

\* C20: close succeeds only when the signer is the session's own viewer and the
\* session record exists, and a successful close destroys the record; on a pair
\* with no record (so also right after a close, until an approve opens a new
\* one) close fails with an error, for every signer, and changes nothing.
C20_CloseOnlyByOwnerOnce ==
  /\ [] ( \A signer \in AllViewers, v \in AllViewers, vid \in AllVideos :
            LET o == close_viewer_session_as(signer, v, vid)
            IN /\ o.err = "Ok"
                    => /\ signer = v
                       /\ viewer_session[<<v, vid>>].exists
                       /\ o.session = NoSession
               /\ ( signer # v \/ ~viewer_session[<<v, vid>>].exists )
                    => Rejected(o, v, vid)
               /\ ~viewer_session[<<v, vid>>].exists => o.err = "AccountNotInitialized" )
  /\ [][ \A v \in AllViewers, vid \in AllVideos :
           ( last'.op = "close" /\ last'.viewer = v /\ last'.video = vid )
           => /\ viewer_session[<<v, vid>>].exists
              /\ viewer_session'[<<v, vid>>] = NoSession
              /\ \A signer \in AllViewers :
                   (close_viewer_session_as(signer, v, vid).err = "AccountNotInitialized")'
       ]_vars

\* a session that had consumed chunks was closed: the record is gone, closing
\* it again fails, and so does paying or settling on it
C20_Witness ==
  \E v \in AllViewers, vid \in AllVideos :
    /\ last.op = "close" /\ last.viewer = v /\ last.video = vid
    /\ last.amount > 0
    /\ ~viewer_session[<<v, vid>>].exists
    /\ close_viewer_session_as(v, v, vid).err = "AccountNotInitialized"
    /\ \E other \in AllViewers \ {v} :
         close_viewer_session_as(other, v, vid).err = "AccountNotInitialized"
    /\ pay_for_chunk(v, vid, 0).err = "AccountNotInitialized"

\* C21: approve is rejected, every account unchanged, when max_chunks is 0, when
\* max_chunks exceeds MAX_CHUNKS_PER_APPROVAL, or when the video is not active
\* (as VideoNotActive, else as MaxChunksPerApprovalExceeded); with max_chunks
\* equal to 1 or to MAX_CHUNKS_PER_APPROVAL on an active video it is not rejected
\* on these grounds.
C21_ApproveInputValidation ==
  \A v \in AllViewers, vid \in AllVideos :
    \A n \in ApproveInputs \cup {U32_MAX} :
      LET o == approve_streaming_delegate(v, vid, n)
      IN /\ ( n = 0 \/ n > MAX_CHUNKS_PER_APPROVAL \/ ~video[vid].is_active )
              => /\ Rejected(o, v, vid)
                 /\ o.err = (IF ~video[vid].is_active
                               THEN "VideoNotActive"
                               ELSE "MaxChunksPerApprovalExceeded")
         /\ ( n \in {1, MAX_CHUNKS_PER_APPROVAL} /\ video[vid].is_active )
              => o.err \notin {"VideoNotActive", "MaxChunksPerApprovalExceeded"}

\* one video was deactivated and an approval for it is refused for that, while on
\* an active video 1 chunk is approved, 0 and 1001 chunks are refused as out of
\* range and 1000 chunks get as far as the balance check
C21_Witness ==
  \E v \in AllViewers, off \in AllVideos, on \in AllVideos :
    /\ last.op = "update" /\ last.video = off
    /\ ~video[off].is_active /\ video[on].is_active
    /\ viewer_session[<<v, off>>].exists
    /\ approve_streaming_delegate(v, off, 1).err = "VideoNotActive"
    /\ approve_streaming_delegate(v, on, 1).err = "Ok"
    /\ approve_streaming_delegate(v, on, 0).err = "MaxChunksPerApprovalExceeded"
    /\ approve_streaming_delegate(v, on, MAX_CHUNKS_PER_APPROVAL + 1).err
         = "MaxChunksPerApprovalExceeded"
    /\ approve_streaming_delegate(v, on, MAX_CHUNKS_PER_APPROVAL).err
         = "InsufficientBalanceForApproval"

\* fee = floor(amount * rate / BASIS_POINTS), stated by division so that the
\* product is never formed: with amount = whole * B + rest, the floor is
\* whole * rate + floor(rest * rate / B)
IsFloorFee(fee, amount, rate) ==
  LET whole == amount \div BASIS_POINTS
      part == ((amount % BASIS_POINTS) * rate) \div BASIS_POINTS
  IN /\ fee >= part
     /\ IF rate = 0
          THEN fee = part
          ELSE (fee - part) % rate = 0 /\ (fee - part) \div rate = whole

C23_ClosedIsTerminal ==
  /\ [] ( \A v \in AllViewers, vid \in AllVideos :
            ~viewer_session[<<v, vid>>].exists
            => /\ viewer_session[<<v, vid>>] = NoSession
               /\ \A i \in 0 .. (VideoChunks + 1) :
                    /\ pay_for_chunk(v, vid, i).err = "AccountNotInitialized"
                    /\ Rejected(pay_for_chunk(v, vid, i), v, vid)
               /\ \A n \in ChunkCountInputs, ts \in TimestampInputs(v, vid) \cup Instants :
                    /\ settle_session(v, vid, n, ts).err = "AccountNotInitialized"
                    /\ Rejected(settle_session(v, vid, n, ts), v, vid)
               /\ revoke_streaming_delegate(v, vid).err = "AccountNotInitialized"
               /\ Rejected(revoke_streaming_delegate(v, vid), v, vid)
               /\ \A signer \in AllViewers :
                    close_viewer_session_as(signer, v, vid).err = "AccountNotInitialized" )
  /\ [][ \A v \in AllViewers, vid \in AllVideos :
           ( ~viewer_session[<<v, vid>>].exists /\ viewer_session'[<<v, vid>>].exists )
           => /\ last'.op = "approve" /\ last'.viewer = v /\ last'.video = vid
              /\ viewer_session'[<<v, vid>>].chunks_consumed = 0
              /\ viewer_session'[<<v, vid>>].total_spent = 0
              /\ viewer_session'[<<v, vid>>].last_paid_chunk_index = NONE
              /\ viewer_session'[<<v, vid>>].max_approved_chunks = last'.arg
              /\ viewer_session'[<<v, vid>>].session_start = now
       ]_vars

\* a pair whose first record consumed chunks and was closed has a new record:
\* nothing consumed, no marker, and chunk 0 is the one that is accepted
C23_Witness ==
  \E v \in AllViewers, vid \in AllVideos :
    LET s == viewer_session[<<v, vid>>]
    IN /\ last.op = "approve" /\ last.viewer = v /\ last.video = vid
       /\ s.exists
       /\ platform.total_sessions = 2
       /\ creator_earnings[vid].total_chunks_sold >= 2
       /\ chunk_paid_log[<<v, vid>>] = <<>>
       /\ s.chunks_consumed = 0 /\ s.total_spent = 0
       /\ s.last_paid_chunk_index = NONE
       /\ pay_for_chunk(v, vid, 0).err = "Ok"
       /\ pay_for_chunk(v, vid, 1).err = "OutOfSequenceChunk"

\* C24: only the session's own consumer can act on it.  Whoever signs and
\* whichever token account is passed, approve, pay_for_chunk, settle_session,
\* revoke and close succeed only when the signer is the viewer of the session
\* record and the token account is the signer's own; every other call fails
\* and changes nothing.  So a step that changes a session record, or the
\* balance or delegation of a viewer's token account, is a call signed by that
\* viewer.
CallerOwnsAccounts(o, signer, v, tv, vid) ==
  IF signer = v /\ tv = v THEN TRUE ELSE Rejected(o, v, vid)

C24_OnlyTheViewerActs ==
  /\ [] ( \A signer \in AllViewers, v \in AllViewers, tv \in AllViewers, vid \in AllVideos :
            /\ \A n \in ApproveInputs :
                 CallerOwnsAccounts(approve_streaming_delegate_as(signer, v, tv, vid, n),
                                    signer, v, tv, vid)
            /\ \A i \in ChunkIndexInputs :
                 CallerOwnsAccounts(pay_for_chunk_as(signer, v, tv, vid, i),
                                    signer, v, tv, vid)
            /\ \A n \in ChunkCountInputs, ts \in TimestampInputs(v, vid) :
                 CallerOwnsAccounts(settle_session_as(signer, v, tv, vid, n, ts),
                                    signer, v, tv, vid)
            /\ CallerOwnsAccounts(revoke_streaming_delegate_as(signer, v, tv, vid),
                                  signer, v, tv, vid)
            /\ CallerOwnsAccounts(close_viewer_session_as(signer, v, vid),
                                  signer, v, v, vid) )
  /\ [][ \A v \in AllViewers :
           ( \/ viewer_token_account'[v] # viewer_token_account[v]
             \/ \E vid \in AllVideos :
                  viewer_session'[<<v, vid>>] # viewer_session[<<v, vid>>] )
           => last'.viewer = v
       ]_vars

\* both viewers hold a session on the same video with chunks consumed, and in
\* that state the other viewer's signature is refused on every instruction
\* that would otherwise go through
C24_Witness ==
  /\ \A v \in AllViewers :
       /\ viewer_session[<<v, "vidA">>].exists
       /\ viewer_session[<<v, "vidA">>].chunks_consumed = 1
       /\ viewer_token_account[v].delegated_amount > 0
  /\ settle_session_as("v1", "v1", "v1", "vidA", 1, now).err = "Ok"
  /\ settle_session_as("v2", "v1", "v1", "vidA", 1, now).err = "Unauthorized"
  /\ settle_session_as("v2", "v1", "v2", "vidA", 1, now).err = "Unauthorized"
  /\ pay_for_chunk_as("v1", "v1", "v1", "vidA", 1).err = "Ok"
  /\ pay_for_chunk_as("v2", "v1", "v1", "vidA", 1).err # "Ok"
  /\ pay_for_chunk_as("v1", "v1", "v2", "vidA", 1).err = "ConstraintRaw"
  /\ close_viewer_session_as("v1", "v1", "vidA").err = "Ok"
  /\ close_viewer_session_as("v2", "v1", "vidA").err = "ConstraintSeeds"

\* C25: re-approval is the recovery from a price change.  When pay_for_chunk of
\* the next index in sequence is rejected with PriceChangedSinceApproval and the
\* viewer then re-approves the session successfully, pay_for_chunk of that next
\* index is no longer rejected with PriceChangedSinceApproval.
C25_ReapprovalRecoversPrice ==
  [][ \A v \in AllViewers, vid \in AllVideos :
        LET s == viewer_session[<<v, vid>>]
            i == C2_NextIndex(s)
        IN ( /\ s.exists
             /\ pay_for_chunk(v, vid, i).err = "PriceChangedSinceApproval"
             /\ last'.op = "approve" /\ last'.viewer = v /\ last'.video = vid
             /\ viewer_session'[<<v, vid>>].max_approved_chunks > s.max_approved_chunks )
           => (pay_for_chunk(v, vid, i).err # "PriceChangedSinceApproval")'
    ]_vars

\* C26: a session record is counted once, at its first successful settlement.
\* total_sessions of the video and of its earnings grow in a step by the number
\* of records of that video whose chunks_consumed goes from 0 to positive in
\* that step, which only a pay_for_chunk or a settle_session does, and by
\* nothing else; so both counters are equal, count every record that has
\* consumed chunks, and never exceed the number of records opened.
C26_SessionsCountedOnce ==
  /\ [] ( \A vid \in AllVideos :
            /\ video[vid].total_sessions = creator_earnings[vid].total_sessions
            /\ video[vid].total_sessions
                 >= Cardinality({v \in AllViewers :
                                   viewer_session[<<v, vid>>].chunks_consumed > 0})
            /\ video[vid].total_sessions <= platform.total_sessions )
  /\ [][ \A vid \in AllVideos :
           LET firsts == {v \in AllViewers :
                            /\ viewer_session[<<v, vid>>].chunks_consumed = 0
                            /\ viewer_session'[<<v, vid>>].chunks_consumed > 0}
           IN /\ video'[vid].total_sessions
                   = video[vid].total_sessions + Cardinality(firsts)
              /\ creator_earnings'[vid].total_sessions
                   = creator_earnings[vid].total_sessions + Cardinality(firsts)
              /\ firsts # {} => /\ last'.op \in {"pay", "settle"}
                                /\ last'.video = vid
                                /\ firsts = {last'.viewer}
       ]_vars

\* two records counted: one whose first settlement was a batch and that paid
\* single chunks afterwards, one whose first settlement was a single chunk and
\* that settled batches afterwards
C26_Witness ==
  LET s1 == viewer_session[<<"v1", "vidA">>]
      s2 == viewer_session[<<"v2", "vidA">>]
  IN /\ video["vidA"].total_sessions = 2
     /\ creator_earnings["vidA"].total_sessions = 2
     /\ s1.exists /\ s2.exists
     /\ s1.chunks_consumed = 3 /\ chunk_paid_log[<<"v1", "vidA">>] = <<0>>
     /\ s2.chunks_consumed = 3 /\ chunk_paid_log[<<"v2", "vidA">>] = <<0, 1>>

\* an approve step of the pair: it raises the record's ceiling (from 0 when the
\* record is new)
ApproveStep(v, vid) ==
  /\ last'.op = "approve" /\ last'.viewer = v /\ last'.video = vid
  /\ viewer_session'[<<v, vid>>].max_approved_chunks
       > viewer_session[<<v, vid>>].max_approved_chunks

\* C27 as stated: an approve that creates the session record increments the
\* video's total_sessions by one, and a re-approval of an existing record
\* leaves it unchanged.
C27_ApproveCountsOnVideo ==
  [][ \A v \in AllViewers, vid \in AllVideos :
        ApproveStep(v, vid)
        => video'[vid].total_sessions
             = video[vid].total_sessions
               + (IF viewer_session[<<v, vid>>].exists THEN 0 ELSE 1)
    ]_vars

\* C27 (amended): an approve that creates the session record increments the
\* platform's total_sessions by one and a re-approval of an existing record
\* does not; neither changes the video's total_sessions (nor anything else of
\* the video or of its earnings), which counts the record at its first
\* settlement.
C27_ApproveCountsOnPlatform ==
  [][ \A v \in AllViewers, vid \in AllVideos :
        ApproveStep(v, vid)
        => /\ platform' = [platform EXCEPT !.total_sessions =
                             @ + (IF viewer_session[<<v, vid>>].exists THEN 0 ELSE 1)]
           /\ video' = video
           /\ creator_earnings' = creator_earnings
    ]_vars

\* a second record was opened and then re-approved: the platform has counted
\* two records, the video none, since nothing was settled on either
C27_Witness ==
  /\ last.op = "approve"
  /\ platform.total_sessions = 2
  /\ video["vidA"].total_sessions = 0
  /\ \A v \in AllViewers : viewer_session[<<v, "vidA">>].exists
  /\ viewer_session[<<last.viewer, "vidA">>].max_approved_chunks > last.arg

\* the seven rejections of pay_for_chunk in the order the claim gives them
PayRejections ==
  <<"SessionExpired", "SessionInactive", "InvalidChunkIndex", "InsufficientApproval",
    "OutOfSequenceChunk", "PriceChangedSinceApproval", "InsufficientBalance">>

\* the positions in PayRejections of the preconditions that fail for
\* pay_for_chunk(v, vid, i) in the current state
PayFailing(v, vid, i) ==
  LET s == viewer_session[<<v, vid>>]
      fails == << now - s.session_start > SESSION_EXPIRY_DURATION,
                  now - s.last_activity > SESSION_INACTIVITY_DURATION,
                  i >= video[vid].total_chunks,
                  s.chunks_consumed >= s.max_approved_chunks,
                  i # C2_NextIndex(s),
                  video[vid].price_per_chunk # s.approved_price_per_chunk,
                  viewer_token_account[v].amount < video[vid].price_per_chunk >>
  IN {k \in 1 .. 7 : fails[k]}

\* C28: when several preconditions of pay_for_chunk fail at once (on an
\* existing record of an active video, so that the accounts are accepted), the
\* error is that of the earliest failing one in the order expired, inactive,
\* index out of bounds, no approved chunks remaining, out of sequence, price
\* changed, insufficient balance; when none fails the call returns none of these
\* errors; and the seven errors are seven different kinds.
C28_EarliestFailingCheck ==
  /\ Cardinality({PayRejections[k] : k \in 1 .. 7}) = 7
  /\ \A v \in AllViewers, vid \in AllVideos, i \in 0 .. (VideoChunks + 1) :
       ( viewer_session[<<v, vid>>].exists /\ video[vid].is_active )
       => LET failing == PayFailing(v, vid, i)
              err == pay_for_chunk(v, vid, i).err
          IN IF failing = {}
               THEN \A k \in 1 .. 7 : err # PayRejections[k]
               ELSE /\ \E k \in failing :
                         /\ \A j \in failing : k <= j
                         /\ err = PayRejections[k]
                    /\ Rejected(pay_for_chunk(v, vid, i), v, vid)

\* all seven preconditions fail at once for some index and the error is
\* SessionExpired
C28_Witness ==
  \E v \in AllViewers, vid \in AllVideos, i \in 0 .. (VideoChunks + 1) :
    /\ viewer_session[<<v, vid>>].exists /\ video[vid].is_active
    /\ PayFailing(v, vid, i) = 1 .. 7
    /\ pay_for_chunk(v, vid, i).err = "SessionExpired"

\* C29: Expired and Inactive are strict.  is_expired holds iff more than 86400
\* seconds have passed since session_start and is_inactive iff more than 3600
\* seconds since last_activity; up to and including exactly 86400 seconds after
\* opening no approve, pay_for_chunk or settle_session is rejected as
\* SessionExpired, and up to and including exactly 3600 seconds after the last
\* activity no approve or pay_for_chunk is rejected as SessionInactive.
C29_WindowsAreStrict ==
  /\ SESSION_EXPIRY_DURATION = 86400
  /\ SESSION_INACTIVITY_DURATION = 3600
  /\ \A v \in AllViewers, vid \in AllVideos :
       LET s == viewer_session[<<v, vid>>]
       IN s.exists
          => /\ is_expired(s, now) <=> (now - s.session_start > 86400)
             /\ is_inactive(s, now) <=> (now - s.last_activity > 3600)
             /\ now - s.session_start <= 86400
                  => /\ \A n \in ApproveInputs :
                          approve_streaming_delegate(v, vid, n).err # "SessionExpired"
                     /\ \A i \in 0 .. (VideoChunks + 1) :
                          pay_for_chunk(v, vid, i).err # "SessionExpired"
                     /\ \A n \in ChunkCountInputs, ts \in TimestampInputs(v, vid) :
                          settle_session(v, vid, n, ts).err # "SessionExpired"
             /\ now - s.last_activity <= 3600
                  => /\ \A n \in ApproveInputs :
                          approve_streaming_delegate(v, vid, n).err # "SessionInactive"
                     /\ \A i \in 0 .. (VideoChunks + 1) :
                          pay_for_chunk(v, vid, i).err # "SessionInactive"

\* exactly 86400 seconds after opening a chunk has just been paid, after a
\* batch settlement at that same instant had made the session active again,
\* and a re-approval is accepted as well
C29_Witness ==
  \E v \in AllViewers, vid \in AllVideos :
    LET s == viewer_session[<<v, vid>>]
    IN /\ s.exists
       /\ now - s.session_start = SESSION_EXPIRY_DURATION
       /\ last.op = "pay" /\ last.viewer = v /\ last.video = vid
       /\ s.last_activity = now
       /\ s.chunks_consumed > Len(chunk_paid_log[<<v, vid>>])
       /\ approve_streaming_delegate(v, vid, 1).err = "Ok"

\* C30: every successful pay_for_chunk emits a ChunkPaid whose payment_sequence
\* is the record's chunks_consumed after the update and whose chunks_remaining
\* is max_approved_chunks - chunks_consumed; over the ChunkPaid events of one
\* session record payment_sequence is strictly increasing, batch settlements
\* between two events included.
C30_PaymentSequence ==
  /\ [] ( \A k \in Keys :
            LET ev == chunk_paid_events[k]
            IN /\ Len(ev) = Len(chunk_paid_log[k])
               /\ \A a \in 1 .. Len(ev), b \in 1 .. Len(ev) :
                    a < b => ev[a].payment_sequence < ev[b].payment_sequence
               /\ \A a \in 1 .. Len(ev) :
                    /\ ev[a].payment_sequence >= 1
                    /\ ev[a].payment_sequence <= viewer_session[k].chunks_consumed )
  /\ [][ \A k \in Keys :
           chunk_paid_log'[k] = Append(chunk_paid_log[k], last'.arg)
           => LET ev == chunk_paid_events'[k]
                  s == viewer_session'[k]
              IN /\ last'.op = "pay" /\ k = <<last'.viewer, last'.video>>
                 /\ Len(ev) = Len(chunk_paid_events[k]) + 1
                 /\ ev[Len(ev)].payment_sequence = s.chunks_consumed
                 /\ ev[Len(ev)].payment_sequence = viewer_session[k].chunks_consumed + 1
                 /\ ev[Len(ev)].chunks_remaining
                      = s.max_approved_chunks - s.chunks_consumed
       ]_vars

\* two ChunkPaid events of one record with a batch settlement between them:
\* the sequence numbers are 1 and 3 while the chunk indices are 0 and 1
C30_Witness ==
  \E k \in Keys :
    /\ chunk_paid_log[k] = <<0, 1>>
    /\ Len(chunk_paid_events[k]) = 2
    /\ chunk_paid_events[k][1].payment_sequence = 1
    /\ chunk_paid_events[k][2].payment_sequence = 3
    /\ chunk_paid_events[k][2].chunks_remaining = 0
    /\ viewer_session[k].chunks_consumed = 3

\* the sum of f over the finite set S
RECURSIVE SumOf(_, _)
SumOf(f, S) ==
  IF S = {} THEN 0
  ELSE LET x == CHOOSE y \in S : TRUE
       IN f[x] + SumOf(f, S \ {x})

\* no session record was ever closed: every record opened still exists
NeverClosed ==
  platform.total_sessions = Cardinality({k \in Keys : viewer_session[k].exists})

\* C31: sessions of different viewers on the same video are independent.  A
\* step changes the session record of the pair the instruction was called for
\* and no other record; and whatever the order in which the viewers'
\* settlements were committed, the shared counters are the sum of what the
\* session records contributed: chunks served and sold are the sum of the
\* records' chunks_consumed, earnings plus revenue the sum of their
\* total_spent, and the session counters the number of records that consumed.
C31_SessionsIndependent ==
  /\ [] ( NeverClosed
          => /\ \A vid \in AllVideos :
                  LET consumed == [v \in AllViewers |->
                                     viewer_session[<<v, vid>>].chunks_consumed]
                  IN /\ video[vid].total_chunks_served = SumOf(consumed, AllViewers)
                     /\ creator_earnings[vid].total_chunks_sold = SumOf(consumed, AllViewers)
                     /\ video[vid].total_sessions
                          = Cardinality({v \in AllViewers : consumed[v] > 0})
             /\ platform.total_revenue
                  + SumOf([vid \in AllVideos |-> creator_earnings[vid].total_earned],
                          AllVideos)
                  = SumOf([k \in Keys |-> viewer_session[k].total_spent], Keys) )
  /\ [][ \A k \in Keys :
           viewer_session'[k] # viewer_session[k]
           => k = <<last'.viewer, last'.video>>
       ]_vars

\* two viewers settled on the same video, one by a batch of two and the other
\* by single chunks, and the counters hold the sum
C31_Witness ==
  LET s1 == viewer_session[<<"v1", "vidA">>]
      s2 == viewer_session[<<"v2", "vidA">>]
  IN /\ NeverClosed
     /\ s1.exists /\ s2.exists
     /\ s1.chunks_consumed = 2 /\ chunk_paid_log[<<"v1", "vidA">>] = <<>>
     /\ s2.chunks_consumed = 1 /\ chunk_paid_log[<<"v2", "vidA">>] = <<0>>
     /\ video["vidA"].total_chunks_served = 3
     /\ video["vidA"].total_sessions = 2
     /\ creator_earnings["vidA"].total_earned + platform.total_revenue
          = s1.total_spent + s2.total_spent

\* everything the viewers' token accounts were debited since the start
TotalDebited ==
  SumOf([v \in AllViewers |-> InitialBalance - viewer_token_account[v].amount], AllViewers)

\* total_spent of every session record, the closed ones included
TotalSpent ==
  SumOf([k \in Keys |-> viewer_session[k].total_spent], Keys) + closed_spent

\* C32: value is conserved.  In every reachable state the platform's
\* total_revenue plus the total_earned of all earnings records equals the sum
\* of total_spent over all session records, closed ones included, which equals
\* what the viewers' token accounts were debited (and what the creators' and
\* the platform's token accounts received).
C32_ValueConserved ==
  /\ platform.total_revenue
       + SumOf([vid \in AllVideos |-> creator_earnings[vid].total_earned], AllVideos)
       = TotalSpent
  /\ TotalSpent = TotalDebited
  /\ platform_token_account = platform.total_revenue
  /\ \A vid \in AllVideos : creator_token_account[vid] = creator_earnings[vid].total_earned

\* a record that had paid was closed and its successor has paid as well: the
\* closed record's payments still count
C32_Witness ==
  /\ closed_spent > 0
  /\ \E k \in Keys :
       /\ viewer_session[k].exists
       /\ viewer_session[k].total_spent > 0
       /\ viewer_session[k].total_spent < TotalSpent
  /\ platform.total_revenue > 0
  /\ TotalDebited = TotalSpent

\* C33: in every reachable state every existing session record has
\* total_spent = chunks_consumed * approved_price_per_chunk, whatever unit
\* settlements, batch settlements, re-approvals and price changes occurred.
C33_SpentIsConsumedTimesLockedPrice ==
  \A k \in Keys :
    viewer_session[k].exists
    => viewer_session[k].total_spent
         = viewer_session[k].chunks_consumed * viewer_session[k].approved_price_per_chunk

\* a record that paid a single chunk and a batch, the batch settled while the
\* video's price differed from the locked one
C33_Witness ==
  \E v \in AllViewers, vid \in AllVideos :
    LET s == viewer_session[<<v, vid>>]
    IN /\ s.exists
       /\ last.op = "settle" /\ last.viewer = v /\ last.video = vid
       /\ video[vid].price_per_chunk # s.approved_price_per_chunk
       /\ Len(chunk_paid_log[<<v, vid>>]) >= 1
       /\ s.chunks_consumed > Len(chunk_paid_log[<<v, vid>>])
       /\ s.total_spent = s.chunks_consumed * s.approved_price_per_chunk

\* chunks_consumed of every session record ever opened on the video, the
\* closed ones included
TotalConsumed(vid) ==
  SumOf([v \in AllViewers |-> viewer_session[<<v, vid>>].chunks_consumed], AllViewers)
    + closed_chunks[vid]

\* C34: in every reachable state a video's total_chunks_served equals its
\* earnings record's total_chunks_sold, and both equal the sum of
\* chunks_consumed over all session records ever opened on the video, closed
\* ones included.
C34_ChunksServedIsChunksConsumed ==
  \A vid \in AllVideos :
    /\ video[vid].total_chunks_served = creator_earnings[vid].total_chunks_sold
    /\ video[vid].total_chunks_served = TotalConsumed(vid)

\* a record that consumed chunks was closed and its successor consumed chunks
\* by unit and by batch: the counters cover both records
C34_Witness ==
  \E v \in AllViewers, vid \in AllVideos :
    LET s == viewer_session[<<v, vid>>]
    IN /\ closed_chunks[vid] >= 1
       /\ s.exists
       /\ Len(chunk_paid_log[<<v, vid>>]) >= 1
       /\ s.chunks_consumed > Len(chunk_paid_log[<<v, vid>>])
       /\ video[vid].total_chunks_served = s.chunks_consumed + closed_chunks[vid]

\* C35: for a viewer with a single session and no revoke, after any sequence
\* of approvals, unit settlements, batch settlements and price updates the
\* delegated allowance equals (max_approved_chunks - chunks_consumed) *
\* approved_price_per_chunk, so that a settlement within the ceiling is never
\* refused by the token program for lack of allowance.
C35_AllowanceCoversCeiling ==
  LET s == viewer_session[<<"v1", "vidA">>]
      vt == viewer_token_account["v1"]
  IN s.exists
     => /\ vt.delegated_amount
             = (s.max_approved_chunks - s.chunks_consumed) * s.approved_price_per_chunk
        /\ \A n \in 1 .. (s.max_approved_chunks - s.chunks_consumed) :
             settle_session("v1", "vidA", n, now).err # "TokenError"

\* what the session record of (v, vid) may still spend: the chunks left under
\* its ceiling at its locked price
Outstanding(v, vid) ==
  LET s == viewer_session[<<v, vid>>]
  IN (s.max_approved_chunks - s.chunks_consumed) * s.approved_price_per_chunk

\* C36: for a viewer with open sessions on two videos, after any sequence of
\* approvals and settlements without revoke, the delegated allowance of the
\* viewer's token account is at least the sum over the sessions of
\* (max_approved_chunks - chunks_consumed) * approved_price_per_chunk: an
\* approval for one session never reduces the allowance backing the other.
C36_AllowanceCoversAllSessions ==
  \A v \in AllViewers :
    viewer_token_account[v].delegated_amount
      >= SumOf([vid \in AllVideos |-> Outstanding(v, vid)], AllVideos)

\* C37: after a successful revoke and until the viewer's next successful
\* approve, every pay_for_chunk and settle_session on the viewer's sessions
\* fails and leaves every account and balance unchanged, also when the session
\* has approved chunks left.  The revoke leaves the token account without
\* delegate; only an approve of that viewer gives it one again; and while it has
\* none, every settlement of the viewer is rejected.
C37_RevokedCannotSettle ==
  /\ [] ( \A v \in AllViewers :
            ~viewer_token_account[v].delegate
            => \A vid \in AllVideos :
                 /\ \A i \in 0 .. (VideoChunks + 1) :
                      Rejected(pay_for_chunk(v, vid, i), v, vid)
                 /\ \A n \in ChunkCountInputs, ts \in TimestampInputs(v, vid) :
                      Rejected(settle_session(v, vid, n, ts), v, vid) )
  /\ [][ /\ last'.op = "revoke" /\ last' # last
            => /\ ~viewer_token_account'[last'.viewer].delegate
               /\ viewer_token_account'[last'.viewer].delegated_amount = 0
         /\ \A v \in AllViewers :
              ( ~viewer_token_account[v].delegate /\ viewer_token_account'[v].delegate )
              => last'.op = "approve" /\ last'.viewer = v
       ]_vars

\* just revoked: the session has approved chunks left, the viewer has the
\* balance and every other check passes, and both settlements are refused by
\* the token program
C37_Witness ==
  \E v \in AllViewers, vid \in AllVideos :
    LET s == viewer_session[<<v, vid>>]
    IN /\ last.op = "revoke" /\ last.viewer = v /\ last.video = vid
       /\ s.exists
       /\ s.chunks_consumed >= 1
       /\ s.chunks_consumed < s.max_approved_chunks
       /\ viewer_token_account[v].amount >= s.approved_price_per_chunk
       /\ pay_for_chunk(v, vid, C2_NextIndex(s)).err = "TokenError"
       /\ settle_session(v, vid, 1, now).err = "TokenError"

\* C38: in every reachable state a session record whose last_paid_chunk_index
\* is m has chunks_consumed >= m + 1, with equality when every settlement of
\* the record was a pay_for_chunk (as many ChunkPaid events as chunks
\* consumed); a record with no marker whose settlements were all pay_for_chunk
\* has chunks_consumed = 0; and the marker of an existing record never
\* decreases nor disappears.
C38_MarkerBelowConsumed ==
  /\ [] ( \A k \in Keys :
            LET s == viewer_session[k]
                m == s.last_paid_chunk_index
                only_units == s.chunks_consumed = Len(chunk_paid_log[k])
            IN s.exists
               => /\ m # NONE => /\ m >= 0
                                 /\ s.chunks_consumed >= m + 1
                                 /\ only_units => s.chunks_consumed = m + 1
                  /\ m = NONE => ( only_units => s.chunks_consumed = 0 )
                  /\ Len(chunk_paid_log[k]) <= s.chunks_consumed )
  /\ [][ \A k \in Keys :
           ( /\ viewer_session[k].exists /\ viewer_session'[k].exists
             /\ viewer_session[k].last_paid_chunk_index # NONE )
           => /\ viewer_session'[k].last_paid_chunk_index # NONE
              /\ viewer_session'[k].last_paid_chunk_index
                   >= viewer_session[k].last_paid_chunk_index
       ]_vars

\* a record that paid chunks 0 and 1 and settled a batch as well: the marker
\* is 1 and more than two chunks are consumed
C38_Witness ==
  \E k \in Keys :
    /\ viewer_session[k].exists
    /\ viewer_session[k].last_paid_chunk_index = 1
    /\ chunk_paid_log[k] = <<0, 1>>
    /\ viewer_session[k].chunks_consumed >= 3

\* C39: in every reachable state a session record's chunks_consumed does not
\* exceed the video's total_chunks: no combination of approvals, unit
\* settlements and batch settlements pays for more chunks than the video has.
C39_ConsumedWithinVideo ==
  \A v \in AllViewers, vid \in AllVideos :
    viewer_session[<<v, vid>>].exists
    => viewer_session[<<v, vid>>].chunks_consumed <= video[vid].total_chunks

====
